---- MODULE Spec2Model ----
(***************************************************************************)
(* A model of the TryNano faucet server (src/index.js): the request        *)
(* handler, the five API operations and the per-IP faucet eligibility      *)
(* check, and of the scheduled sweep (src/returnAllNanoToFaucet.js), with  *)
(* the DynamoDB tables, the Nano client and the captcha validator as the   *)
(* environment.  Requests and sweep runs are first taken one at a time,    *)
(* each as one step; RunSpec, SendRaceSpec and FaucetRaceSpec then take    *)
(* every awaited call as a step of its own, the last two with several      *)
(* requests in flight.                                                     *)
(*                                                                         *)
(* Time is in milliseconds since the start of the run (Date.now() minus a  *)
(* fixed origin that is a multiple of 1000), so that the values stay       *)
(* within TLC's integers.  The code's floating point quotients             *)
(*   numSecondsSinceLastInvoke = (ts - lastUsedTs) / 1000                  *)
(*   numHoursSinceLastInvoke   = numSecondsSinceLastInvoke / 3600          *)
(* are compared with whole numbers only, and for integer milliseconds      *)
(*   ms / 1000 < s          <=>  ms < s * 1000                             *)
(*   ms / 1000 / 3600 < h   <=>  ms < h * 3600 * 1000                      *)
(* (the nearest integer millisecond is 1e-8 hours away from the            *)
(* threshold, far above the rounding error of a double), so the model      *)
(* compares milliseconds.                                                  *)
(***************************************************************************)
EXTENDS Integers, Sequences, FiniteSets, TLC

VARIABLES
  env,         \* the keys of process.env that are set (and not empty)
  clock,       \* Date.now(), in ms
  wallets,     \* table TryNanoWallets: walletID -> item or NoItem
  ipHistory,   \* table FaucetIpHistory: ipAddress -> item or NoItem
  chain,       \* the Nano ledger behind the client: address -> account
  resp,        \* history: the latest request, its response and the calls it made
  allowedTs,   \* history: per ipAddress, the ts of every check that was allowed
  last,        \* history: the latest eligibility check (its inputs and outcome)
  sweepEnv,    \* the keys of process.env that are set in the sweep's process
  sweep,       \* history: the latest sweep run, its response and what it did
  run,         \* the sweep run in flight: its position and its local variables
  procs        \* the API requests in flight: per request, position and locals

vars ==
  <<env, clock, wallets, ipHistory, chain, resp, allowedTs, last, sweepEnv, sweep,
    run, procs>>

handlerVars == <<env, wallets, chain, resp>>

sweepVars == <<sweepEnv, sweep>>

flightVars == <<run, procs>>

----------------------------------------------------------------------------
(* Program constants (src/index.js:20-25)                                  *)

FAUCET_IP_HISTORY_EXPIRATION_TIME_SECONDS == 172800

FAUCET_THROTTLE_DURATION_SECONDS == 600

FAUCET_INVOKE_LIMIT == 10

FAUCET_RESET_TIME_HOURS == 24

(* The literal 24 of the update expression (src/index.js:460).             *)
UPDATE_RESET_HOURS == 24

----------------------------------------------------------------------------
(* Bounds of the model                                                     *)

MaxChecks == 12

MaxRequests == 3

MaxDays == 3

MaxOps == 2

MaxClock == MaxDays * 24 * 3600 * 1000

IPs == {"ip1", "ip2"}

(* The source address the eligibility specification follows.               *)
EligIps == {"ip1"}

(* The times at which the next request arrives, counted from the latest    *)
(* allowed use of some ipAddress: at and 1 ms below the throttle duration, *)
(* at and 1 ms below the reset time, and half a second and a second and a  *)
(* half past the retention time (the epoch second of the expirationTime    *)
(* and the one after it).                                                  *)
Offsets ==
  { FAUCET_THROTTLE_DURATION_SECONDS * 1000 - 1,
    FAUCET_THROTTLE_DURATION_SECONDS * 1000,
    FAUCET_RESET_TIME_HOURS * 3600 * 1000 - 1,
    FAUCET_RESET_TIME_HOURS * 3600 * 1000,
    FAUCET_IP_HISTORY_EXPIRATION_TIME_SECONDS * 1000 + 500,
    FAUCET_IP_HISTORY_EXPIRATION_TIME_SECONDS * 1000 + 1500 }

----------------------------------------------------------------------------
(* Items of the table FaucetIpHistory                                      *)

NoItem == [absent |-> TRUE]

ThrottleReason == "Faucet was used within the past 10 minutes, please try again later."

LimitReason == "You have reached the max number of faucet uses, please try again after 24 hours."

NoReason == "undefined"

(* Math.round(ts / 1000) for ts >= 0: halves round up.                     *)
RoundSeconds(ts) == (ts + 500) \div 1000

ExpirationTime(ts) == RoundSeconds(ts) + FAUCET_IP_HISTORY_EXPIRATION_TIME_SECONDS

(* Mutant: the count of the first use starts at 0.                         *)
FreshItem_ZeroCount(ts) ==
  [ numFaucetInvocations |-> 0,
    lastUsedTs |-> ts,
    expirationTime |-> ExpirationTime(ts),
    attrType |-> "S" ]

(* The item putItem writes for an ipAddress without one: every attribute   *)
(* is a string (toString), which parseInt reads back as the same integer.  *)
FreshItem(ts) ==
  [ numFaucetInvocations |-> 1,
    lastUsedTs |-> ts,
    expirationTime |-> ExpirationTime(ts),
    attrType |-> "S" ]

CurrNumInvokes(item) == item.numFaucetInvocations + 1

MsSinceLastInvoke(ts, item) == ts - item.lastUsedTs

(* Mutant: the milliseconds are compared with the duration in seconds.     *)
ThrottleRejects_Seconds(ms) == ms < FAUCET_THROTTLE_DURATION_SECONDS

ThrottleRejects(ms) == ms < FAUCET_THROTTLE_DURATION_SECONDS * 1000

(* Mutant: the limit is compared with the count before this use.           *)
LimitRejects_StoredCount(currNumInvokes, ms) ==
  /\ currNumInvokes - 1 > FAUCET_INVOKE_LIMIT
  /\ ms < FAUCET_RESET_TIME_HOURS * 3600 * 1000

(* Mutant: the milliseconds are compared with the reset time in seconds.   *)
LimitRejects_Seconds(currNumInvokes, ms) ==
  /\ currNumInvokes > FAUCET_INVOKE_LIMIT
  /\ ms < FAUCET_RESET_TIME_HOURS * 3600

LimitRejects(currNumInvokes, ms) ==
  /\ currNumInvokes > FAUCET_INVOKE_LIMIT
  /\ ms < FAUCET_RESET_TIME_HOURS * 3600 * 1000

(* Mutant: the count is never reset.                                       *)
UpdatedCount_NoReset(currNumInvokes, ms) == currNumInvokes

UpdatedCount(currNumInvokes, ms) ==
  IF ms < UPDATE_RESET_HOURS * 3600 * 1000 THEN currNumInvokes ELSE 1

(* The item after updateItem's SET: the three attributes become numbers.   *)
UpdatedItem(ts, item) ==
  [ numFaucetInvocations |->
      UpdatedCount(CurrNumInvokes(item), MsSinceLastInvoke(ts, item)),
    lastUsedTs |-> ts,
    expirationTime |-> ExpirationTime(ts),
    attrType |-> "N" ]

(* Mutant: the limit is looked at before the throttle.                     *)
checkFaucetEligibility_LimitFirst(ipAddress, ts, table) ==
  LET item == table[ipAddress] IN
  IF item = NoItem
  THEN [ isEligible |-> TRUE, reason |-> NoReason,
         table |-> [table EXCEPT ![ipAddress] = FreshItem(ts)],
         calls |-> {"getItem", "putItem"} ]
  ELSE IF LimitRejects(CurrNumInvokes(item), MsSinceLastInvoke(ts, item))
  THEN [ isEligible |-> FALSE, reason |-> LimitReason,
         table |-> table, calls |-> {"getItem"} ]
  ELSE IF ThrottleRejects(MsSinceLastInvoke(ts, item))
  THEN [ isEligible |-> FALSE, reason |-> ThrottleReason,
         table |-> table, calls |-> {"getItem"} ]
  ELSE [ isEligible |-> TRUE, reason |-> NoReason,
         table |-> [table EXCEPT ![ipAddress] = UpdatedItem(ts, item)],
         calls |-> {"getItem", "updateItem"} ]

(* Mutant: a check rejected for the limit still records the time of use.   *)
checkFaucetEligibility_TouchOnReject(ipAddress, ts, table) ==
  LET item == table[ipAddress] IN
  IF item = NoItem
  THEN [ isEligible |-> TRUE, reason |-> NoReason,
         table |-> [table EXCEPT ![ipAddress] = FreshItem(ts)],
         calls |-> {"getItem", "putItem"} ]
  ELSE IF ThrottleRejects(MsSinceLastInvoke(ts, item))
  THEN [ isEligible |-> FALSE, reason |-> ThrottleReason,
         table |-> table, calls |-> {"getItem"} ]
  ELSE IF LimitRejects(CurrNumInvokes(item), MsSinceLastInvoke(ts, item))
  THEN [ isEligible |-> FALSE, reason |-> LimitReason,
         table |-> [table EXCEPT ![ipAddress].lastUsedTs = ts],
         calls |-> {"getItem", "updateItem"} ]
  ELSE [ isEligible |-> TRUE, reason |-> NoReason,
         table |-> [table EXCEPT ![ipAddress] = UpdatedItem(ts, item)],
         calls |-> {"getItem", "updateItem"} ]

(* checkFaucetEligibility(ipAddress) run at Date.now() = ts on the table:  *)
(* its result, the table it leaves and the table calls it made.            *)
checkFaucetEligibility(ipAddress, ts, table) ==
  LET item == table[ipAddress] IN
  IF item = NoItem
  THEN [ isEligible |-> TRUE, reason |-> NoReason,
         table |-> [table EXCEPT ![ipAddress] = FreshItem(ts)],
         calls |-> {"getItem", "putItem"} ]
  ELSE IF ThrottleRejects(MsSinceLastInvoke(ts, item))
  THEN [ isEligible |-> FALSE, reason |-> ThrottleReason,
         table |-> table, calls |-> {"getItem"} ]
  ELSE IF LimitRejects(CurrNumInvokes(item), MsSinceLastInvoke(ts, item))
  THEN [ isEligible |-> FALSE, reason |-> LimitReason,
         table |-> table, calls |-> {"getItem"} ]
  ELSE [ isEligible |-> TRUE, reason |-> NoReason,
         table |-> [table EXCEPT ![ipAddress] = UpdatedItem(ts, item)],
         calls |-> {"getItem", "updateItem"} ]

----------------------------------------------------------------------------
(* Configuration and validateState                                         *)

ConfigKeys ==
  { "ADDRESS", "PUBLIC_KEY", "PRIVATE_KEY", "CAPTCHA_SECRET",
    "NANOBOX_USER", "NANOBOX_PASSWORD" }

(* process.env as the server starts: complete, or one key short.           *)
InitEnvs == {ConfigKeys} \cup {ConfigKeys \ {k} : k \in ConfigKeys}

Null == "null"

Undefined == "undefined"

(* Mutant: the last key is not looked at.                                  *)
validateState_SkipsPassword(e) ==
  IF "ADDRESS" \notin e THEN "ADDRESS key missing from .env - you must fix"
  ELSE IF "PUBLIC_KEY" \notin e THEN "PUBLIC_KEY key missing from .env - you must fix"
  ELSE IF "PRIVATE_KEY" \notin e THEN "PRIVATE_KEY key missing from .env - you must fix"
  ELSE IF "CAPTCHA_SECRET" \notin e THEN "CAPTCHA_SECRET key missing from .env - you must fix"
  ELSE IF "NANOBOX_USER" \notin e THEN "NANOBOX_USER key missing from .env - you must fix"
  ELSE Null

(* The error message for the first key that is not set, or null.           *)
validateState(e) ==
  IF "ADDRESS" \notin e THEN "ADDRESS key missing from .env - you must fix"
  ELSE IF "PUBLIC_KEY" \notin e THEN "PUBLIC_KEY key missing from .env - you must fix"
  ELSE IF "PRIVATE_KEY" \notin e THEN "PRIVATE_KEY key missing from .env - you must fix"
  ELSE IF "CAPTCHA_SECRET" \notin e THEN "CAPTCHA_SECRET key missing from .env - you must fix"
  ELSE IF "NANOBOX_USER" \notin e THEN "NANOBOX_USER key missing from .env - you must fix"
  ELSE IF "NANOBOX_PASSWORD" \notin e THEN "NANOBOX_PASSWORD key missing from .env - you must fix"
  ELSE Null

(* The configuration of the sweep (src/returnAllNanoToFaucet.js).          *)
SweepConfigKeys ==
  {"FAUCET_ADDRESS", "FAUCET_PUBLIC_KEY", "FAUCET_PRIVATE_KEY", "NANOBOX_USER",
   "NANOBOX_PASSWORD"}

sweepValidateState(e) ==
  IF "FAUCET_ADDRESS" \notin e THEN "FAUCET_ADDRESS key missing from .env - you must fix"
  ELSE IF "FAUCET_PUBLIC_KEY" \notin e
  THEN "FAUCET_PUBLIC_KEY key missing from .env - you must fix"
  ELSE IF "FAUCET_PRIVATE_KEY" \notin e
  THEN "FAUCET_PRIVATE_KEY key missing from .env - you must fix"
  ELSE IF "NANOBOX_USER" \notin e THEN "NANOBOX_USER key missing from .env - you must fix"
  ELSE IF "NANOBOX_PASSWORD" \notin e
  THEN "NANOBOX_PASSWORD key missing from .env - you must fix"
  ELSE Null

----------------------------------------------------------------------------
(* Addresses, keys and the ledger behind the Nano client                   *)

FAUCET_ADDRESS == "faucet"

(* The addresses generateWallet hands out, in this order; each is new.     *)
WalletOrder == <<"w1", "w2", "w3", "w4">>

Addr == {WalletOrder[i] : i \in 1..Len(WalletOrder)}

ChainAddrs == Addr \cup {FAUCET_ADDRESS}

KeyOf == [a \in Addr |-> <<"privateKey", a>>]

BadKey == <<"privateKey", "other">>

NoKey == <<"privateKey", Undefined>>

(* What a call of the client or of the captcha validator does: it answers, *)
(* it answers nothing (or success: false), or it raises an error.          *)
CallOutcomes == {"ok", "undefined", "throw"}

(* The faucet's balance at the start, in the model's unit of Nano.         *)
FaucetInitBalances == {0, 200000}

FAUCET_PERCENT_NUM == 15

FAUCET_PERCENT_DEN == 100000

(* NANO.fromNumber(balance.asNumber * FAUCET_PERCENT), truncated to the    *)
(* model's unit.                                                           *)
FaucetPayout(balance) == (balance * FAUCET_PERCENT_NUM) \div FAUCET_PERCENT_DEN

(* c.send / c.sendMax answered: the amount leaves the sender's balance and *)
(* waits at the receiver as one pending block.                             *)
ClientSend(c, from, to, amount) ==
  [a \in ChainAddrs |->
     IF a = from /\ a = to
       THEN [balance |-> c[a].balance - amount, pending |-> c[a].pending + amount,
             blocks |-> c[a].blocks + 1]
     ELSE IF a = from THEN [c[a] EXCEPT !.balance = @ - amount]
     ELSE IF a = to THEN [c[a] EXCEPT !.pending = @ + amount, !.blocks = @ + 1]
     ELSE c[a]]

(* c.receive answered: every pending block is settled into the balance.    *)
ClientReceive(c, a) ==
  [c EXCEPT ![a] = [balance |-> @.balance + @.pending, pending |-> 0, blocks |-> 0]]

----------------------------------------------------------------------------
(* Requests                                                                *)

WALLET_EXPIRATION_TIME_SECONDS == 259200

MappedPaths ==
  { "/api/createWallets", "/api/send", "/api/receive", "/api/getFromFaucet",
    "/api/receivePendingFaucetTransactions" }

UnmappedPath == "/api/unknown"

Paths == MappedPaths \cup {UnmappedPath}

Methods == {"POST", "OPTIONS"}

NoToken == Undefined

Tokens == {NoToken, "token"}

NoAmount == [given |-> FALSE, asString |-> 0]

Amount(n) == [given |-> TRUE, asString |-> n]

(* event.body: absent, a text that is not JSON, or JSON with the fields    *)
(* the operations read (a field the body lacks is undefined).              *)
NoBody == [kind |-> "none"]

BadJson == [kind |-> "malformed"]

JsonBody(from, key, to, amount, recv) ==
  [ kind |-> "json", fromAddress |-> from, privateKey |-> key, toAddress |-> to,
    amount |-> amount, receiveAddress |-> recv ]

EmptyParams == JsonBody(Undefined, NoKey, Undefined, NoAmount, Undefined)

(* The addresses requests name: two that createWallets hands out and one   *)
(* that it never does.  Requests send from the first of them.              *)
RequestAddrs == {"w1", "w2", "nowallet"}

SenderAddrs == {"w1", "nowallet"}

KeysFor(a) == IF a \in Addr THEN {KeyOf[a], BadKey} ELSE {BadKey}

SendAmounts == {NoAmount, Amount(0), Amount(10)}

BodiesOf(path) ==
  {NoBody, BadJson} \cup
  (CASE path = "/api/send" ->
          UNION { { JsonBody(f, k, t, a, Undefined) :
                      k \in KeysFor(f), t \in {"w2", FAUCET_ADDRESS}, a \in SendAmounts } :
                  f \in SenderAddrs }
     [] path = "/api/receive" ->
          { JsonBody(Undefined, NoKey, Undefined, NoAmount, r) : r \in RequestAddrs }
     [] path = "/api/getFromFaucet" ->
          UNION { { JsonBody(Undefined, k, t, NoAmount, Undefined) : k \in KeysFor(t) } :
                  t \in SenderAddrs }
     [] OTHER -> {EmptyParams})

Events ==
  UNION { [method : Methods, rawPath : {p}, token : Tokens,
           body : BodiesOf(p), sourceIp : IPs] : p \in Paths }

Outcomes ==
  [captcha : CallOutcomes, info : CallOutcomes, send : CallOutcomes, receive : CallOutcomes]

(* A request with the outcomes of its external calls.  What the handler    *)
(* never comes to read is held fixed: the body and the source address of a *)
(* request answered at the gate (OPTIONS, no token, captcha not passed),   *)
(* the source address outside getFromFaucet, and the outcome of a call the *)
(* request cannot reach.                                                   *)
AtGate(e, o) == e.method = "OPTIONS" \/ e.token = NoToken \/ o.captcha # "ok"

HasOwnKey(e) == e.body.kind = "json" /\ e.body.privateKey \notin {BadKey, NoKey}

IsInput(e, o) ==
  /\ (e.method = "OPTIONS" \/ e.token = NoToken) => o.captcha = "ok"
  /\ AtGate(e, o) => e.body \in {NoBody, BadJson}
  /\ (e.rawPath # "/api/getFromFaucet" \/ e.body.kind # "json") => e.sourceIp = "ip1"
  /\ (o.info # "ok" \/ o.send # "ok") =>
        /\ e.rawPath \in {"/api/send", "/api/getFromFaucet"}
        /\ HasOwnKey(e)
        /\ o.info = "ok" \/ o.send = "ok"
  /\ o.receive # "ok" =>
        \/ e.rawPath = "/api/receivePendingFaucetTransactions" /\ e.body = NoBody
        \/ e.rawPath = "/api/receive" /\ e.body.kind = "json"
             /\ e.body.receiveAddress \in Addr

Inputs == { io \in Events \X Outcomes : IsInput(io[1], io[2]) }

----------------------------------------------------------------------------
(* The API operations.  Each takes the tables and the ledger (st) and      *)
(* gives the response, the tables and ledger it leaves and the calls it    *)
(* made; statusCode Thrown stands for an error raised out of the operation.*)

Thrown == 0

NoData == [kind |-> "none"]

Res(code, err, data, st, calls) ==
  [statusCode |-> code, error |-> err, data |-> data, st |-> st, calls |-> calls]

Throw(st, calls) == Res(Thrown, Null, NoData, st, calls)

Lookup(table, key) == IF key \in DOMAIN table THEN table[key] ELSE NoItem

(* loadNanoAccountFromDB: the item of the address, or null.                *)
loadNanoAccountFromDB(address, st) == Lookup(st.wallets, address)

(* Mutant: the update adds the value to the stored balance                 *)
(* (SET balance = balance + :u).                                           *)
updateNanoBalanceInDB_Add(address, updatedBalance, st) ==
  [st EXCEPT !.wallets[address].balance = @ + updatedBalance]

(* updateNanoBalanceInDB: SET balance = :u on the item of the address.     *)
updateNanoBalanceInDB(address, updatedBalance, st) ==
  [st EXCEPT !.wallets[address].balance = updatedBalance]

FreeAddrs(w) == {i \in 1..Len(WalletOrder) : w[WalletOrder[i]] = NoItem}

NextAddr(w) == WalletOrder[CHOOSE i \in FreeAddrs(w) : \A j \in FreeAddrs(w) : i <= j]

(* Mutant: the expiration is added to the time in milliseconds.            *)
WalletItem_Millis(a, ts) ==
  [ privateKey |-> KeyOf[a], publicKey |-> a, balance |-> 0,
    expirationTs |-> ts + WALLET_EXPIRATION_TIME_SECONDS ]

WalletItem(a, ts) ==
  [ privateKey |-> KeyOf[a], publicKey |-> a, balance |-> 0,
    expirationTs |-> RoundSeconds(ts) + WALLET_EXPIRATION_TIME_SECONDS ]

createWallets(st, ts) ==
  LET a1 == NextAddr(st.wallets)
      w1 == [st.wallets EXCEPT ![a1] = WalletItem(a1, ts)]
      a2 == NextAddr(w1)
      w2 == [w1 EXCEPT ![a2] = WalletItem(a2, ts)]
  IN Res(200, Null,
         [kind |-> "wallets",
          wallets |-> << [address |-> a1, privateKey |-> KeyOf[a1], balance |-> 0],
                         [address |-> a2, privateKey |-> KeyOf[a2], balance |-> 0] >>],
         [st EXCEPT !.wallets = w2],
         {"generateWallet", "putItem"})

(* Mutant: an amount of zero is not looked at and goes to c.send.          *)
send_NoZeroCheck(params, o, st, ts) ==
  IF params.fromAddress = Undefined THEN Throw(st, {"getItem"}) ELSE
  LET acc == loadNanoAccountFromDB(params.fromAddress, st) IN
  IF acc = NoItem
  THEN Res(400, "is an invalid wallet address", NoData, st, {"getItem"})
  ELSE IF params.privateKey # acc.privateKey
  THEN Res(400, "invalid private key for wallet address", NoData, st, {"getItem"})
  ELSE IF o.info = "throw" THEN Throw(st, {"getItem", "updateWalletAccount"})
  ELSE IF o.info = "undefined"
  THEN Res(500, "unable to retrieve account info for address sending Nano", NoData, st,
           {"getItem", "updateWalletAccount"})
  ELSE
  LET balance == st.chain[params.fromAddress].balance IN
  IF balance = 0
  THEN Res(400, "wallet balance is zero", NoData, st, {"getItem", "updateWalletAccount"})
  ELSE
  LET amount == IF params.amount.given THEN params.amount.asString ELSE balance
      call == IF params.amount.given THEN "send" ELSE "sendMax"
      calls == {"getItem", "updateWalletAccount", call}
  IN
  IF o.send = "throw" THEN Throw(st, calls)
  ELSE IF o.send = "undefined" \/ amount > balance
  THEN Res(500, "unable to send", NoData, st, calls)
  ELSE
  LET c1 == ClientSend(st.chain, params.fromAddress, params.toAddress, amount)
      updatedBalance == c1[params.fromAddress].balance
  IN Res(200, Null,
         [kind |-> "send", address |-> params.fromAddress,
          balance |-> updatedBalance, sendTimestamp |-> ts],
         updateNanoBalanceInDB(params.fromAddress, updatedBalance, [st EXCEPT !.chain = c1]),
         calls \cup {"updateItem"})

send(params, o, st, ts) ==
  IF params.fromAddress = Undefined THEN Throw(st, {"getItem"}) ELSE
  LET acc == loadNanoAccountFromDB(params.fromAddress, st) IN
  IF acc = NoItem
  THEN Res(400, "is an invalid wallet address", NoData, st, {"getItem"})
  ELSE IF params.privateKey # acc.privateKey
  THEN Res(400, "invalid private key for wallet address", NoData, st, {"getItem"})
  ELSE IF o.info = "throw" THEN Throw(st, {"getItem", "updateWalletAccount"})
  ELSE IF o.info = "undefined"
  THEN Res(500, "unable to retrieve account info for address sending Nano", NoData, st,
           {"getItem", "updateWalletAccount"})
  ELSE
  LET balance == st.chain[params.fromAddress].balance IN
  IF balance = 0
  THEN Res(400, "wallet balance is zero", NoData, st, {"getItem", "updateWalletAccount"})
  ELSE IF params.amount.given /\ params.amount.asString = 0
  THEN Res(400, "Unable to send zero amount of Nano", NoData, st,
           {"getItem", "updateWalletAccount"})
  ELSE
  LET amount == IF params.amount.given THEN params.amount.asString ELSE balance
      call == IF params.amount.given THEN "send" ELSE "sendMax"
      calls == {"getItem", "updateWalletAccount", call}
  IN
  IF o.send = "throw" THEN Throw(st, calls)
  ELSE IF o.send = "undefined" \/ amount > balance
  THEN Res(500, "unable to send", NoData, st, calls)
  ELSE
  LET c1 == ClientSend(st.chain, params.fromAddress, params.toAddress, amount)
      updatedBalance == c1[params.fromAddress].balance
  IN Res(200, Null,
         [kind |-> "send", address |-> params.fromAddress,
          balance |-> updatedBalance, sendTimestamp |-> ts],
         updateNanoBalanceInDB(params.fromAddress, updatedBalance, [st EXCEPT !.chain = c1]),
         calls \cup {"updateItem"})

receive(params, o, st) ==
  IF params.receiveAddress = Undefined THEN Throw(st, {"getItem"}) ELSE
  LET acc == loadNanoAccountFromDB(params.receiveAddress, st) IN
  IF acc = NoItem
  THEN Res(400, "invalid wallet address", NoData, st, {"getItem"})
  ELSE IF o.receive # "ok" THEN Throw(st, {"getItem", "receive"})
  ELSE
  LET c1 == ClientReceive(st.chain, params.receiveAddress)
      updatedBalance == c1[params.receiveAddress].balance
  IN Res(200, Null,
         [kind |-> "receive", address |-> params.receiveAddress,
          balance |-> updatedBalance,
          resolvedCount |-> st.chain[params.receiveAddress].blocks],
         updateNanoBalanceInDB(params.receiveAddress, updatedBalance,
                               [st EXCEPT !.chain = c1]),
         {"getItem", "receive", "updateItem"})

(* Mutant: the faucet's balance is not tested, and a payout of the share   *)
(* of nothing is sent.                                                     *)
getFromFaucet_NoBalanceTest(event, params, o, st, ts) ==
  IF params.toAddress = Undefined THEN Throw(st, {"getItem"}) ELSE
  LET acc == loadNanoAccountFromDB(params.toAddress, st) IN
  IF acc = NoItem
  THEN Res(400, "is an invalid wallet address", NoData, st, {"getItem"})
  ELSE IF params.privateKey # acc.privateKey
  THEN Res(400, "invalid private key for wallet address", NoData, st, {"getItem"})
  ELSE
  LET status == checkFaucetEligibility(event.sourceIp, ts, st.ipHistory)
      st1 == [st EXCEPT !.ipHistory = status.table]
      calls == {"getItem", "checkFaucetEligibility"} \cup status.calls
  IN
  IF ~status.isEligible THEN Res(400, status.reason, NoData, st1, calls)
  ELSE IF o.info = "throw" THEN Throw(st1, calls \cup {"updateWalletAccount"})
  ELSE IF o.info = "undefined"
  THEN Res(500, "unable to retrieve faucet account info", NoData, st1,
           calls \cup {"updateWalletAccount"})
  ELSE
  LET balance == st.chain[FAUCET_ADDRESS].balance IN
  IF o.send = "throw" THEN Throw(st1, calls \cup {"updateWalletAccount", "send"})
  ELSE IF o.send = "undefined"
  THEN Res(500, "unable to send", NoData, st1, calls \cup {"updateWalletAccount", "send"})
  ELSE
  LET c1 == ClientSend(st.chain, FAUCET_ADDRESS, params.toAddress, FaucetPayout(balance))
  IN Res(200, Null,
         [kind |-> "faucet", address |-> FAUCET_ADDRESS,
          balance |-> c1[FAUCET_ADDRESS].balance],
         [st1 EXCEPT !.chain = c1],
         calls \cup {"updateWalletAccount", "send"})

(* Mutant: a request the eligibility check refuses is answered with a      *)
(* message of the operation's own in place of the check's reason.          *)
getFromFaucet_OwnReason(event, params, o, st, ts) ==
  IF params.toAddress = Undefined THEN Throw(st, {"getItem"}) ELSE
  LET acc == loadNanoAccountFromDB(params.toAddress, st) IN
  IF acc = NoItem
  THEN Res(400, "is an invalid wallet address", NoData, st, {"getItem"})
  ELSE IF params.privateKey # acc.privateKey
  THEN Res(400, "invalid private key for wallet address", NoData, st, {"getItem"})
  ELSE
  LET status == checkFaucetEligibility(event.sourceIp, ts, st.ipHistory)
      st1 == [st EXCEPT !.ipHistory = status.table]
      calls == {"getItem", "checkFaucetEligibility"} \cup status.calls
  IN
  IF ~status.isEligible THEN Res(400, "not eligible to use the faucet", NoData, st1, calls)
  ELSE IF o.info = "throw" THEN Throw(st1, calls \cup {"updateWalletAccount"})
  ELSE IF o.info = "undefined"
  THEN Res(500, "unable to retrieve faucet account info", NoData, st1,
           calls \cup {"updateWalletAccount"})
  ELSE
  LET balance == st.chain[FAUCET_ADDRESS].balance IN
  IF balance = 0
  THEN Res(400, "Faucet balance is zero", NoData, st1, calls \cup {"updateWalletAccount"})
  ELSE IF o.send = "throw" THEN Throw(st1, calls \cup {"updateWalletAccount", "send"})
  ELSE IF o.send = "undefined"
  THEN Res(500, "unable to send", NoData, st1, calls \cup {"updateWalletAccount", "send"})
  ELSE
  LET c1 == ClientSend(st.chain, FAUCET_ADDRESS, params.toAddress, FaucetPayout(balance))
  IN Res(200, Null,
         [kind |-> "faucet", address |-> FAUCET_ADDRESS,
          balance |-> c1[FAUCET_ADDRESS].balance],
         [st1 EXCEPT !.chain = c1],
         calls \cup {"updateWalletAccount", "send"})

(* Mutant: the eligibility check runs before the private key is compared.  *)
getFromFaucet_CheckFirst(event, params, o, st, ts) ==
  IF params.toAddress = Undefined THEN Throw(st, {"getItem"}) ELSE
  LET acc == loadNanoAccountFromDB(params.toAddress, st) IN
  IF acc = NoItem
  THEN Res(400, "is an invalid wallet address", NoData, st, {"getItem"})
  ELSE
  LET status == checkFaucetEligibility(event.sourceIp, ts, st.ipHistory)
      st1 == [st EXCEPT !.ipHistory = status.table]
      calls == {"getItem", "checkFaucetEligibility"} \cup status.calls
  IN
  IF params.privateKey # acc.privateKey
  THEN Res(400, "invalid private key for wallet address", NoData, st1, calls)
  ELSE IF ~status.isEligible THEN Res(400, status.reason, NoData, st1, calls)
  ELSE IF o.info = "throw" THEN Throw(st1, calls \cup {"updateWalletAccount"})
  ELSE IF o.info = "undefined"
  THEN Res(500, "unable to retrieve faucet account info", NoData, st1,
           calls \cup {"updateWalletAccount"})
  ELSE
  LET balance == st.chain[FAUCET_ADDRESS].balance IN
  IF balance = 0
  THEN Res(400, "Faucet balance is zero", NoData, st1, calls \cup {"updateWalletAccount"})
  ELSE IF o.send = "throw" THEN Throw(st1, calls \cup {"updateWalletAccount", "send"})
  ELSE IF o.send = "undefined"
  THEN Res(500, "unable to send", NoData, st1, calls \cup {"updateWalletAccount", "send"})
  ELSE
  LET c1 == ClientSend(st.chain, FAUCET_ADDRESS, params.toAddress, FaucetPayout(balance))
  IN Res(200, Null,
         [kind |-> "faucet", address |-> FAUCET_ADDRESS,
          balance |-> c1[FAUCET_ADDRESS].balance],
         [st1 EXCEPT !.chain = c1],
         calls \cup {"updateWalletAccount", "send"})

getFromFaucet(event, params, o, st, ts) ==
  IF params.toAddress = Undefined THEN Throw(st, {"getItem"}) ELSE
  LET acc == loadNanoAccountFromDB(params.toAddress, st) IN
  IF acc = NoItem
  THEN Res(400, "is an invalid wallet address", NoData, st, {"getItem"})
  ELSE IF params.privateKey # acc.privateKey
  THEN Res(400, "invalid private key for wallet address", NoData, st, {"getItem"})
  ELSE
  LET status == checkFaucetEligibility(event.sourceIp, ts, st.ipHistory)
      st1 == [st EXCEPT !.ipHistory = status.table]
      calls == {"getItem", "checkFaucetEligibility"} \cup status.calls
  IN
  IF ~status.isEligible THEN Res(400, status.reason, NoData, st1, calls)
  ELSE IF o.info = "throw" THEN Throw(st1, calls \cup {"updateWalletAccount"})
  ELSE IF o.info = "undefined"
  THEN Res(500, "unable to retrieve faucet account info", NoData, st1,
           calls \cup {"updateWalletAccount"})
  ELSE
  LET balance == st.chain[FAUCET_ADDRESS].balance IN
  IF balance = 0
  THEN Res(400, "Faucet balance is zero", NoData, st1, calls \cup {"updateWalletAccount"})
  ELSE IF o.send = "throw" THEN Throw(st1, calls \cup {"updateWalletAccount", "send"})
  ELSE IF o.send = "undefined"
  THEN Res(500, "unable to send", NoData, st1, calls \cup {"updateWalletAccount", "send"})
  ELSE
  LET c1 == ClientSend(st.chain, FAUCET_ADDRESS, params.toAddress, FaucetPayout(balance))
  IN Res(200, Null,
         [kind |-> "faucet", address |-> FAUCET_ADDRESS,
          balance |-> c1[FAUCET_ADDRESS].balance],
         [st1 EXCEPT !.chain = c1],
         calls \cup {"updateWalletAccount", "send"})

receivePendingFaucetTransactions(o, st) ==
  IF o.receive # "ok" THEN Throw(st, {"receive"})
  ELSE
  LET c1 == ClientReceive(st.chain, FAUCET_ADDRESS)
  IN Res(200, Null,
         [kind |-> "receive", address |-> FAUCET_ADDRESS,
          balance |-> c1[FAUCET_ADDRESS].balance,
          resolvedCount |-> st.chain[FAUCET_ADDRESS].blocks],
         [st EXCEPT !.chain = c1],
         {"receive"})

apiMethod(event, params, o, st, ts) ==
  CASE event.rawPath = "/api/createWallets" -> createWallets(st, ts)
    [] event.rawPath = "/api/send" -> send(params, o, st, ts)
    [] event.rawPath = "/api/receive" -> receive(params, o, st)
    [] event.rawPath = "/api/getFromFaucet" -> getFromFaucet(event, params, o, st, ts)
    [] event.rawPath = "/api/receivePendingFaucetTransactions" ->
         receivePendingFaucetTransactions(o, st)

----------------------------------------------------------------------------
(* exports.handler                                                         *)

ServerError == "Server error, please try again later!"

CaptchaError == "access denied: invalid recaptcha token"

IsOptions(event) == event.method = "OPTIONS"

(* The catch of the handler: an error raised anywhere becomes the 500 with *)
(* the fixed message; what was written before it stays written.            *)
Caught(r) == IF r.statusCode = Thrown THEN [r EXCEPT !.statusCode = 500, !.error = ServerError] ELSE r

Routed(event, o, e, st, ts) ==
  IF event.body = BadJson THEN Throw(st, {"validateCaptcha"})
  ELSE
  LET params == IF event.body = NoBody THEN EmptyParams ELSE event.body IN
  IF event.rawPath \notin MappedPaths
  THEN Res(404, Null, [kind |-> "text", text |-> "not found"], st, {"validateCaptcha"})
  ELSE
  LET r == apiMethod(event, params, o, st, ts)
  IN [r EXCEPT !.calls = @ \cup {"validateCaptcha"}]

(* Mutant: only an answer of the validator without success is refused, so *)
(* a request without a token passes.                                       *)
CaptchaGate_FailOpen(event, o, e, st, ts) ==
  IF event.token = NoToken THEN Routed(event, o, e, st, ts)
  ELSE IF o.captcha = "throw" THEN Throw(st, {"validateCaptcha"})
  ELSE IF o.captcha # "ok" THEN Res(403, CaptchaError, NoData, st, {"validateCaptcha"})
  ELSE Routed(event, o, e, st, ts)

CaptchaGate(event, o, e, st, ts) ==
  IF event.token = NoToken THEN Res(403, CaptchaError, NoData, st, {})
  ELSE IF o.captcha = "throw" THEN Throw(st, {"validateCaptcha"})
  ELSE IF o.captcha # "ok" THEN Res(403, CaptchaError, NoData, st, {"validateCaptcha"})
  ELSE Routed(event, o, e, st, ts)

(* Mutant: the path is looked up before the captcha gate.                  *)
handler_PathFirst(event, o, e, st, ts) ==
  Caught(
    IF IsOptions(event) THEN Res(200, Null, NoData, st, {})
    ELSE IF validateState(e) # Null THEN Res(500, validateState(e), NoData, st, {})
    ELSE IF event.rawPath \notin MappedPaths
    THEN Res(404, Null, [kind |-> "text", text |-> "not found"], st, {})
    ELSE CaptchaGate(event, o, e, st, ts))

handler(event, o, e, st, ts) ==
  Caught(
    IF IsOptions(event) THEN Res(200, Null, NoData, st, {})
    ELSE IF validateState(e) # Null THEN Res(500, validateState(e), NoData, st, {})
    ELSE CaptchaGate(event, o, e, st, ts))

----------------------------------------------------------------------------
(* The environment: time and the table's time-to-live                      *)

NoCheck == [n |-> 0]

NoSweep == [n |-> 0]

NotCalled == "not called"

(* No sweep run in flight, no API request in flight.                       *)
NoRun == [pc |-> "idle"]

NoProcs == <<>>

NoRequest == [n |-> 0]

NextTimes ==
  { ipHistory[ip].lastUsedTs + off :
      ip \in {i \in IPs : ipHistory[i] # NoItem}, off \in Offsets }

(* Time passes until the next request arrives.                             *)
Tick ==
  /\ \E t \in NextTimes :
       /\ clock < t
       /\ t <= MaxClock
       /\ clock' = t
  /\ UNCHANGED <<ipHistory, allowedTs, last, handlerVars, sweepVars, flightVars>>

(* DynamoDB's time-to-live deletes an item once the epoch second in its    *)
(* TTL attribute has passed; it reads number attributes only.              *)
ExpireIpHistory(ip) ==
  /\ ipHistory[ip] # NoItem
  /\ ipHistory[ip].attrType = "N"
  /\ clock \div 1000 > ipHistory[ip].expirationTime
  /\ ipHistory' = [ipHistory EXCEPT ![ip] = NoItem]
  /\ UNCHANGED <<clock, allowedTs, last, handlerVars, sweepVars, flightVars>>

----------------------------------------------------------------------------
(* The server: requests handled one at a time.                             *)

Init ==
  /\ env \in InitEnvs
  /\ clock = 0
  /\ wallets = [a \in Addr |-> NoItem]
  /\ ipHistory = [ip \in IPs |-> NoItem]
  /\ \E b \in FaucetInitBalances :
       chain = [a \in ChainAddrs |->
                  [balance |-> IF a = FAUCET_ADDRESS THEN b ELSE 0,
                   pending |-> 0, blocks |-> 0]]
  /\ resp = NoRequest
  /\ allowedTs = [ip \in IPs |-> <<>>]
  /\ last = NoCheck
  /\ sweepEnv = SweepConfigKeys
  /\ sweep = NoSweep
  /\ run = NoRun
  /\ procs = NoProcs

(* One request, from its arrival to its response.  generateWallet has two  *)
(* new addresses to hand out as long as the model has two left.            *)
Request(event, o) ==
  /\ resp.n < MaxRequests
  /\ event.rawPath = "/api/createWallets" => Cardinality(FreeAddrs(wallets)) >= 2
  /\ LET st == [wallets |-> wallets, ipHistory |-> ipHistory, chain |-> chain]
         r == handler(event, o, env, st, clock)
     IN /\ wallets' = r.st.wallets
        /\ ipHistory' = r.st.ipHistory
        /\ chain' = r.st.chain
        /\ resp' = [ n |-> resp.n + 1, event |-> event, captcha |-> o.captcha,
                     info |-> IF "updateWalletAccount" \in r.calls THEN o.info
                              ELSE NotCalled,
                     statusCode |-> r.statusCode, error |-> r.error,
                     data |-> r.data, calls |-> r.calls ]
  /\ UNCHANGED <<env, clock, allowedTs, last, sweepVars, flightVars>>

Next ==
  \/ \E io \in Inputs : Request(io[1], io[2])
  \/ Tick
  \/ \E ip \in IPs : ExpireIpHistory(ip)

Spec == Init /\ [][Next]_vars

----------------------------------------------------------------------------
(* The server some way into its life.  Two wallets were created; one      *)
(* source address used the faucet for the second wallet as often as the    *)
(* limit allows, each time as soon as the throttle let it; the second      *)
(* wallet then settled what it got and sent all of it to the first, which  *)
(* settled it.  (With an empty faucet the uses were refused and the        *)
(* wallets hold nothing.)  The requests that follow are handled one at a   *)
(* time.                                                                   *)

AllOk == [captcha |-> "ok", info |-> "ok", send |-> "ok", receive |-> "ok"]

PostEvent(path, body, ip) ==
  [method |-> "POST", rawPath |-> path, token |-> "token", body |-> body, sourceIp |-> ip]

CreateWalletsEvent == PostEvent("/api/createWallets", NoBody, "ip1")

FaucetEvent(address, ip) ==
  PostEvent("/api/getFromFaucet",
            JsonBody(Undefined, KeyOf[address], address, NoAmount, Undefined), ip)

ReceiveEvent(address) ==
  PostEvent("/api/receive", JsonBody(Undefined, NoKey, Undefined, NoAmount, address), "ip1")

SendMaxEvent(from, to) ==
  PostEvent("/api/send", JsonBody(from, KeyOf[from], to, NoAmount, Undefined), "ip1")

EmptyStore(b) ==
  [ wallets |-> [a \in Addr |-> NoItem],
    ipHistory |-> [ip \in IPs |-> NoItem],
    chain |-> [a \in ChainAddrs |->
                 [balance |-> IF a = FAUCET_ADDRESS THEN b ELSE 0,
                  pending |-> 0, blocks |-> 0]] ]

(* The stores that a request, with every external call answering, leaves   *)
(* of the stores S.                                                        *)
After(S, event, ts) == { handler(event, AllOk, ConfigKeys, st, ts).st : st \in S }

RECURSIVE FaucetUses(_, _)
(* The stores after k getFromFaucet requests for w2 from ip2, the first at *)
(* time 0 and each next one a throttle duration later.                     *)
FaucetUses(S, k) ==
  IF k = 0 THEN S
  ELSE After(FaucetUses(S, k - 1), FaucetEvent("w2", "ip2"),
             (k - 1) * FAUCET_THROTTLE_DURATION_SECONDS * 1000)

OpsStart == (FAUCET_INVOKE_LIMIT - 1) * FAUCET_THROTTLE_DURATION_SECONDS * 1000

OpsStores ==
  LET created == After({EmptyStore(b) : b \in FaucetInitBalances}, CreateWalletsEvent, 0)
      used == FaucetUses(created, FAUCET_INVOKE_LIMIT)
      settled == After(used, ReceiveEvent("w2"), OpsStart)
      sent == After(settled, SendMaxEvent("w2", "w1"), OpsStart)
  IN After(sent, ReceiveEvent("w1"), OpsStart)

OpsInit ==
  /\ env = ConfigKeys
  /\ clock = OpsStart
  /\ \E st \in OpsStores :
       /\ wallets = st.wallets
       /\ ipHistory = st.ipHistory
       /\ chain = st.chain
  /\ resp = NoRequest
  /\ allowedTs = [ip \in IPs |-> <<>>]
  /\ last = NoCheck
  /\ sweepEnv = SweepConfigKeys
  /\ sweep = NoSweep
  /\ run = NoRun
  /\ procs = NoProcs

(* The requests that come to an API operation: POST to a mapped path with  *)
(* a token the validator accepts.                                          *)
OpsInputs ==
  { io \in Inputs :
      /\ io[1].method = "POST"
      /\ io[1].rawPath \in MappedPaths
      /\ io[1].token # NoToken
      /\ io[1].body # BadJson
      /\ io[2].captcha = "ok" }

(* The waits between requests: to just before and to the end of the       *)
(* throttle duration, and to the end of the reset time, counted from a     *)
(* source address's latest use of the faucet.                              *)
OpsOffsets ==
  { FAUCET_THROTTLE_DURATION_SECONDS * 1000 - 1,
    FAUCET_THROTTLE_DURATION_SECONDS * 1000,
    FAUCET_RESET_TIME_HOURS * 3600 * 1000 }

OpsTick ==
  /\ \E ip \in {i \in IPs : ipHistory[i] # NoItem}, off \in OpsOffsets :
       /\ clock < ipHistory[ip].lastUsedTs + off
       /\ ipHistory[ip].lastUsedTs + off <= MaxClock
       /\ clock' = ipHistory[ip].lastUsedTs + off
  /\ UNCHANGED <<ipHistory, allowedTs, last, handlerVars, sweepVars, flightVars>>

OpsNext ==
  \/ \E io \in OpsInputs : resp.n < MaxOps /\ Request(io[1], io[2])
  \/ OpsTick

OpsSpec == OpsInit /\ [][OpsNext]_vars

----------------------------------------------------------------------------
(* The sweep (src/returnAllNanoToFaucet.js, exports.handler and what it    *)
(* calls): one run, from the scheduled event to the response.              *)

MaxSweeps == 2

(* An item has the attribute the scan compares with the time.  A condition *)
(* on an attribute that an item lacks is false in DynamoDB.                *)
HasEpoch(item) == "returnToFaucetEpoch" \in DOMAIN item

(* Mutant: the filter does not look at the balance.                        *)
ScanFilter_AnyBalance(item, ts) ==
  /\ item # NoItem
  /\ HasEpoch(item)
  /\ item.returnToFaucetEpoch < ts

(* FilterExpression 'returnToFaucetEpoch < :t AND balance > :z', with      *)
(* :t = Date.now() in milliseconds and :z = 0.                             *)
ScanFilter(item, ts) ==
  /\ item # NoItem
  /\ HasEpoch(item)
  /\ item.returnToFaucetEpoch < ts
  /\ item.balance > 0

Scanned(w, ts) == {a \in Addr : ScanFilter(w[a], ts)}

(* The orders in which a scan can return the items it selects.             *)
Orders(S) ==
  {seq \in [1..Cardinality(S) -> S] : \A a \in S : \E i \in DOMAIN seq : seq[i] = a}

(* err.message of the error that a call raises.                            *)
ErrorOf(call) ==
  CASE call = "updateWalletAccount" -> "error raised by updateWalletAccount"
    [] call = "scan" -> "error raised by scan"
    [] call = "sendMax" -> "error raised by sendMax"
    [] call = "receive" -> "error raised by receive"

(* res.error read of a c.receive that answered nothing.                    *)
ReceiveTypeError == "Cannot read property 'error' of undefined"

NoItemsError == "database scan results were not defined"

NoFaucetInfo == "unable to retrieve faucet account info"

RECURSIVE sendNanoFromWallets_StopOnUndefined(_, _, _, _)
(* Mutant: a send that returns nothing ends the loop, as if the callback's *)
(* return left it.                                                         *)
sendNanoFromWallets_StopOnUndefined(items, i, o, acc) ==
  IF i > Len(items) THEN acc
  ELSE
  LET a == items[i]
      tried == [acc EXCEPT !.attempted = Append(@, a)]
  IN
  IF o.sendMax[a] = "throw" THEN [tried EXCEPT !.raised = ErrorOf("sendMax")]
  ELSE IF o.sendMax[a] = "undefined" THEN tried
  ELSE
  LET c1 == ClientSend(tried.st.chain, a, FAUCET_ADDRESS, tried.st.chain[a].balance)
      st1 == updateNanoBalanceInDB(a, c1[a].balance, [tried.st EXCEPT !.chain = c1])
  IN sendNanoFromWallets_StopOnUndefined(items, i + 1, o, [tried EXCEPT !.st = st1])

RECURSIVE sendNanoFromWallets(_, _, _, _)
(* asyncForEach(res.Items, ...) from item i on: one item after the other.  *)
(* A sendMax that returns nothing ends that item's callback only; one that *)
(* raises an error ends the loop.                                          *)
sendNanoFromWallets(items, i, o, acc) ==
  IF i > Len(items) THEN acc
  ELSE
  LET a == items[i]
      tried == [acc EXCEPT !.attempted = Append(@, a)]
  IN
  IF o.sendMax[a] = "throw" THEN [tried EXCEPT !.raised = ErrorOf("sendMax")]
  ELSE IF o.sendMax[a] = "undefined" THEN sendNanoFromWallets(items, i + 1, o, tried)
  ELSE
  LET c1 == ClientSend(tried.st.chain, a, FAUCET_ADDRESS, tried.st.chain[a].balance)
      st1 == updateNanoBalanceInDB(a, c1[a].balance, [tried.st EXCEPT !.chain = c1])
  IN sendNanoFromWallets(items, i + 1, o, [tried EXCEPT !.st = st1])

(* returnAllNanoToFaucet: the scan and the loop.                           *)
returnAllNanoToFaucet(o, st) ==
  LET start == [st |-> st, attempted |-> <<>>, raised |-> Null, error |-> Null,
                scanned |-> <<>>]
  IN
  IF o.scan = "throw" THEN [start EXCEPT !.raised = ErrorOf("scan")]
  ELSE IF o.scan = "undefined" THEN [start EXCEPT !.error = NoItemsError]
  ELSE sendNanoFromWallets(o.order, 1, o, [start EXCEPT !.scanned = o.order])

SweepRes(code, err, data, ret, raised) ==
  [ statusCode |-> code, error |-> err, data |-> data, st |-> ret.st,
    scanned |-> ret.scanned, attempted |-> ret.attempted, raised |-> raised ]

(* The catch of the sweep's handler: the response carries err.message.     *)
sweepCaught(message, ret) == SweepRes(500, message, NoData, ret, message)

sweepHandler(o, e, st) ==
  LET none == [st |-> st, attempted |-> <<>>, raised |-> Null, error |-> Null,
               scanned |-> <<>>]
  IN
  IF sweepValidateState(e) # Null
  THEN SweepRes(500, sweepValidateState(e), NoData, none, Null)
  ELSE IF o.info = "throw" THEN sweepCaught(ErrorOf("updateWalletAccount"), none)
  ELSE IF o.info = "undefined" THEN SweepRes(500, NoFaucetInfo, NoData, none, Null)
  ELSE
  LET previousFaucetBalance == st.chain[FAUCET_ADDRESS].balance
      ret == returnAllNanoToFaucet(o, st)
  IN
  IF ret.raised # Null THEN sweepCaught(ret.raised, ret)
  ELSE IF ret.error # Null THEN SweepRes(500, ret.error, NoData, ret, Null)
  ELSE IF o.receive = "throw" THEN sweepCaught(ErrorOf("receive"), ret)
  ELSE IF o.receive = "undefined" THEN sweepCaught(ReceiveTypeError, ret)
  ELSE
  LET c1 == ClientReceive(ret.st.chain, FAUCET_ADDRESS)
  IN SweepRes(200, Null,
              [ kind |-> "sweep", walletCount |-> Len(ret.scanned),
                previousFaucetBalance |-> previousFaucetBalance,
                updatedFaucetBalance |-> c1[FAUCET_ADDRESS].balance,
                resolvedCount |-> ret.st.chain[FAUCET_ADDRESS].blocks ],
              [ret EXCEPT !.st.chain = c1], Null)

(* The table the sweep finds: the two wallets createWallets made, with the *)
(* balances their requests left, and two items that carry the attribute    *)
(* the scan reads, one of them with an epoch that may not have passed yet. *)
EpochItem(a, balance, epoch) ==
  [ privateKey |-> KeyOf[a], publicKey |-> a, balance |-> balance,
    returnToFaucetEpoch |-> epoch ]

EpochBalances == {0, 20}

Epochs == {OpsStart - 1, OpsStart}

SweepEnvs == {SweepConfigKeys, SweepConfigKeys \ {"NANOBOX_PASSWORD"}}

SweepInit ==
  /\ env = ConfigKeys
  /\ clock = OpsStart
  /\ \E st \in OpsStores, b3 \in EpochBalances, e4 \in Epochs :
       /\ wallets = [st.wallets EXCEPT !["w3"] = EpochItem("w3", b3, OpsStart - 1),
                                       !["w4"] = EpochItem("w4", 20, e4)]
       /\ ipHistory = st.ipHistory
       /\ chain = [st.chain EXCEPT !["w3"].balance = b3, !["w4"].balance = 20]
  /\ resp = NoRequest
  /\ allowedTs = [ip \in IPs |-> <<>>]
  /\ last = NoCheck
  /\ sweepEnv \in SweepEnvs
  /\ sweep = NoSweep
  /\ run = NoRun
  /\ procs = NoProcs

(* What the external calls of one run do, for the set S the scan selects.  *)
SweepOutcomes(S) ==
  LET base == [ info |-> "ok", scan |-> "ok", order |-> <<>>,
                sendMax |-> [a \in S |-> "ok"], receive |-> "ok" ]
  IN { [base EXCEPT !.info = i] : i \in {"undefined", "throw"} }
     \cup { [base EXCEPT !.scan = s] : s \in {"undefined", "throw"} }
     \cup { [base EXCEPT !.order = ord, !.sendMax = f, !.receive = r] :
              ord \in Orders(S), f \in [S -> CallOutcomes], r \in CallOutcomes }

(* One run of the sweep.                                                   *)
Sweep(o) ==
  /\ sweep.n < MaxSweeps
  /\ LET st == [wallets |-> wallets, ipHistory |-> ipHistory, chain |-> chain]
         r == sweepHandler(o, sweepEnv, st)
     IN /\ wallets' = r.st.wallets
        /\ chain' = r.st.chain
        /\ sweep' = [ n |-> sweep.n + 1, statusCode |-> r.statusCode,
                      error |-> r.error, data |-> r.data, raised |-> r.raised,
                      scanned |-> r.scanned, attempted |-> r.attempted,
                      sendMax |-> o.sendMax, ts |-> clock,
                      before |-> [f \in DOMAIN sweep \ {"before"} |-> sweep[f]] ]
  /\ UNCHANGED <<env, clock, ipHistory, resp, allowedTs, last, sweepEnv, flightVars>>

(* Time passes until the next run: past the epoch of the items that have   *)
(* one, or past the expiration of the wallets createWallets made.          *)
SweepTick ==
  /\ \E t \in {OpsStart + 1} \cup
              { wallets[a].expirationTs * 1000 + 1000 :
                  a \in {x \in Addr : wallets[x] # NoItem /\ ~HasEpoch(wallets[x])} } :
       /\ clock < t
       /\ clock' = t
  /\ UNCHANGED <<ipHistory, allowedTs, last, handlerVars, sweepVars, flightVars>>

SweepNext ==
  \/ \E o \in SweepOutcomes(Scanned(wallets, clock)) : Sweep(o)
  \/ SweepTick

SweepSpec == SweepInit /\ [][SweepNext]_vars

----------------------------------------------------------------------------
(* The sweep, one external call after the other: every await of            *)
(* exports.handler and of what it calls is a step of its own, so that the  *)
(* order of the calls of one run is visible.  run.pc names the call the    *)
(* run makes next.                                                         *)

(* Where asyncForEach goes after the callback of item i (i = 0: before the *)
(* first item): to the next item, or back to the handler, whose next call  *)
(* is the faucet's receive.  Mutant: the loop is not awaited.              *)
AfterItem_NotAwaited(items, i) == "receive"

AfterItem(items, i) == IF i < Len(items) THEN "sendMax" ELSE "receive"

(* The response of a run and the end of that run.                          *)
RunEnds(code, err, data, raised) ==
  /\ sweep' = [ n |-> sweep.n + 1, statusCode |-> code, error |-> err,
                data |-> data, raised |-> raised,
                scanned |-> IF "items" \in DOMAIN run THEN run.items ELSE <<>>,
                attempted |-> IF "done" \in DOMAIN run THEN run.done ELSE <<>>,
                sendMax |-> IF "sendMax" \in DOMAIN run THEN run.sendMax ELSE <<>> ]
  /\ run' = NoRun

RunCaught(message) == RunEnds(500, message, NoData, message)

(* The event arrives: validateState, then the call of updateWalletAccount. *)
RunStart ==
  /\ run.pc = "idle"
  /\ sweep.n < MaxSweeps
  /\ IF sweepValidateState(sweepEnv) # Null
     THEN RunEnds(500, sweepValidateState(sweepEnv), NoData, Null)
     ELSE /\ run' = [pc |-> "updateWalletAccount"]
          /\ UNCHANGED sweep
  /\ UNCHANGED <<env, clock, wallets, ipHistory, chain, resp, allowedTs, last,
                 sweepEnv, procs>>

(* c.updateWalletAccount for the faucet returns.                           *)
RunInfo(out) ==
  /\ run.pc = "updateWalletAccount"
  /\ CASE out = "throw" -> RunCaught(ErrorOf("updateWalletAccount"))
       [] out = "undefined" -> RunEnds(500, NoFaucetInfo, NoData, Null)
       [] out = "ok" ->
            /\ run' = [ pc |-> "scan",
                        previousFaucetBalance |-> chain[FAUCET_ADDRESS].balance ]
            /\ UNCHANGED sweep
  /\ UNCHANGED <<env, clock, wallets, ipHistory, chain, resp, allowedTs, last,
                 sweepEnv, procs>>

(* ddb.scan returns, at Date.now() = clock, the items the filter selects.  *)
RunScan(out, order) ==
  /\ run.pc = "scan"
  /\ CASE out = "throw" -> RunCaught(ErrorOf("scan"))
       [] out = "undefined" -> RunEnds(500, NoItemsError, NoData, Null)
       [] out = "ok" ->
            /\ run' = [ pc |-> AfterItem(order, 0),
                        previousFaucetBalance |-> run.previousFaucetBalance,
                        items |-> order, i |-> 1, done |-> <<>>,
                        sendMax |-> <<>>, sent |-> {}, saved |-> {},
                        received |-> FALSE ]
            /\ UNCHANGED sweep
  /\ UNCHANGED <<env, clock, wallets, ipHistory, chain, resp, allowedTs, last,
                 sweepEnv, procs>>

(* c.sendMax of the item at run.i returns.                                 *)
RunSendMax(out) ==
  /\ run.pc = "sendMax"
  /\ run.i <= Len(run.items)
  /\ LET a == run.items[run.i]
         tried == [run EXCEPT !.done = Append(@, a),
                              !.sendMax = Append(@, out)]
     IN CASE out = "throw" ->
               /\ sweep' = [ n |-> sweep.n + 1, statusCode |-> 500,
                             error |-> ErrorOf("sendMax"), data |-> NoData,
                             raised |-> ErrorOf("sendMax"),
                             scanned |-> tried.items, attempted |-> tried.done,
                             sendMax |-> tried.sendMax ]
               /\ run' = NoRun
               /\ UNCHANGED chain
          [] out = "undefined" ->
               /\ run' = [tried EXCEPT !.pc = AfterItem(run.items, run.i),
                                       !.i = @ + 1]
               /\ UNCHANGED <<sweep, chain>>
          [] out = "ok" ->
               LET c1 == ClientSend(chain, a, FAUCET_ADDRESS, chain[a].balance)
               IN /\ chain' = c1
                  /\ run' = [ pc |-> "updateItem",
                              previousFaucetBalance |-> run.previousFaucetBalance,
                              items |-> run.items, i |-> run.i,
                              done |-> tried.done, sendMax |-> tried.sendMax,
                              sent |-> run.sent \cup {a}, saved |-> run.saved,
                              received |-> FALSE,
                              updatedBalance |-> c1[a].balance ]
                  /\ UNCHANGED sweep
  /\ UNCHANGED <<env, clock, wallets, ipHistory, resp, allowedTs, last,
                 sweepEnv, procs>>

(* updateNanoBalanceInDB of the item at run.i returns: the callback of     *)
(* that item ends.                                                         *)
RunUpdateItem ==
  /\ run.pc = "updateItem"
  /\ LET a == run.items[run.i]
         st == [wallets |-> wallets, ipHistory |-> ipHistory, chain |-> chain]
     IN /\ wallets' = updateNanoBalanceInDB(a, run.updatedBalance, st).wallets
        /\ run' = [ pc |-> AfterItem(run.items, run.i),
                    previousFaucetBalance |-> run.previousFaucetBalance,
                    items |-> run.items, i |-> run.i + 1,
                    done |-> run.done, sendMax |-> run.sendMax,
                    sent |-> run.sent, saved |-> run.saved \cup {a},
                    received |-> FALSE ]
  /\ UNCHANGED <<env, clock, ipHistory, chain, resp, allowedTs, last, sweepVars,
                 procs>>

(* c.receive for the faucet returns.                                       *)
RunReceive(out) ==
  /\ run.pc = "receive"
  /\ CASE out = "throw" -> RunCaught(ErrorOf("receive")) /\ UNCHANGED chain
       [] out = "undefined" -> RunCaught(ReceiveTypeError) /\ UNCHANGED chain
       [] out = "ok" ->
            LET c1 == ClientReceive(chain, FAUCET_ADDRESS)
            IN /\ chain' = c1
               /\ run' = [ pc |-> "response",
                           previousFaucetBalance |-> run.previousFaucetBalance,
                           items |-> run.items, i |-> run.i,
                           done |-> run.done, sendMax |-> run.sendMax,
                           sent |-> run.sent, saved |-> run.saved,
                           received |-> TRUE,
                           updatedFaucetBalance |-> c1[FAUCET_ADDRESS].balance,
                           resolvedCount |-> chain[FAUCET_ADDRESS].blocks ]
               /\ UNCHANGED sweep
  /\ UNCHANGED <<env, clock, wallets, ipHistory, resp, allowedTs, last,
                 sweepEnv, procs>>

(* response(200, ...): the report of the run.                              *)
RunResponse ==
  /\ run.pc = "response"
  /\ RunEnds(200, Null,
             [ kind |-> "sweep", walletCount |-> Len(run.items),
               previousFaucetBalance |-> run.previousFaucetBalance,
               updatedFaucetBalance |-> run.updatedFaucetBalance,
               resolvedCount |-> run.resolvedCount ],
             Null)
  /\ UNCHANGED <<env, clock, wallets, ipHistory, chain, resp, allowedTs, last,
                 sweepEnv, procs>>

RunNext ==
  \/ RunStart
  \/ \E out \in CallOutcomes : RunInfo(out)
  \/ \E out \in CallOutcomes, order \in Orders(Scanned(wallets, clock)) :
       RunScan(out, order)
  \/ \E out \in CallOutcomes : RunSendMax(out)
  \/ RunUpdateItem
  \/ \E out \in CallOutcomes : RunReceive(out)
  \/ RunResponse
  \/ SweepTick

RunSpec == SweepInit /\ [][RunNext]_vars

----------------------------------------------------------------------------
(* The eligibility check on its own: non-overlapping checks of one source  *)
(* address, a clock that never goes back, and the table's time-to-live.    *)

EligInit ==
  /\ env = ConfigKeys
  /\ clock = 0
  /\ wallets = [a \in Addr |-> NoItem]
  /\ ipHistory = [ip \in IPs |-> NoItem]
  /\ chain = [a \in ChainAddrs |-> [balance |-> 0, pending |-> 0, blocks |-> 0]]
  /\ resp = NoRequest
  /\ allowedTs = [ip \in IPs |-> <<>>]
  /\ last = NoCheck
  /\ sweepEnv = SweepConfigKeys
  /\ sweep = NoSweep
  /\ run = NoRun
  /\ procs = NoProcs

CheckEligibility(ip) ==
  LET r == checkFaucetEligibility(ip, clock, ipHistory) IN
  /\ last.n < MaxChecks
  /\ ipHistory' = r.table
  /\ allowedTs' = IF r.isEligible
                  THEN [allowedTs EXCEPT ![ip] = Append(@, clock)]
                  ELSE allowedTs
  /\ last' = [ n |-> last.n + 1, ip |-> ip, ts |-> clock,
               before |-> ipHistory[ip], after |-> r.table[ip],
               isEligible |-> r.isEligible, reason |-> r.reason,
               prev |-> IF last.n = 0 THEN NoCheck
                        ELSE [ n |-> last.n, ip |-> last.ip, ts |-> last.ts,
                               isEligible |-> last.isEligible,
                               reason |-> last.reason ] ]
  /\ UNCHANGED <<clock, handlerVars, sweepVars, flightVars>>

EligNext ==
  \/ Tick
  \/ \E ip \in EligIps : CheckEligibility(ip)
  \/ \E ip \in EligIps : ExpireIpHistory(ip)

EligSpec == EligInit /\ [][EligNext]_vars

----------------------------------------------------------------------------
(* Requests in flight at the same time.  Each request runs the code of its *)
(* operation in its own invocation of the handler; every await of a table  *)
(* or client call is a step of its own, and the steps of different         *)
(* requests interleave.  procs[p].pc names the call request p makes next.  *)
(* The requests are those that reach their operation (OpsInputs).          *)

MaxFlights == 2

Store == [wallets |-> wallets, ipHistory |-> ipHistory, chain |-> chain]

Flight(op, params, ip) ==
  [ op |-> op, params |-> params, ip |-> ip, pc |-> "loadNanoAccountFromDB",
    statusCode |-> 0, error |-> Null, ts |-> 0, balance |-> 0, item |-> NoItem,
    updatedBalance |-> 0, sentNo |-> 0, wroteNo |-> 0 ]

(* response(code, ...) of request p: the request ends, and with it its     *)
(* invocation and the locals of that invocation.                           *)
Responds(p, code, err) ==
  procs' = [procs EXCEPT ![p].pc = "done", ![p].statusCode = code, ![p].error = err,
                         ![p].ts = 0, ![p].balance = 0, ![p].item = NoItem]

At(p, op, pc) == procs[p].op = op /\ procs[p].pc = pc

(* How many requests have had their send confirmed, their balance written. *)
SentCount == Cardinality({q \in DOMAIN procs : procs[q].sentNo > 0})

WroteCount == Cardinality({q \in DOMAIN procs : procs[q].wroteNo > 0})

(* A send request reaches send(): loadNanoAccountFromDB is called.         *)
SendArrives(params) ==
  /\ Len(procs) < MaxFlights
  /\ procs' = Append(procs, Flight("send", params, "ip1"))
  /\ UNCHANGED <<env, clock, wallets, ipHistory, chain, resp, allowedTs, last,
                 sweepVars, run>>

(* loadNanoAccountFromDB returns: the two checks, then the call of         *)
(* c.updateWalletAccount.                                                  *)
SendLoad(p) ==
  /\ At(p, "send", "loadNanoAccountFromDB")
  /\ LET params == procs[p].params
         acc == loadNanoAccountFromDB(params.fromAddress, Store)
     IN IF acc = NoItem THEN Responds(p, 400, "is an invalid wallet address")
        ELSE IF params.privateKey # acc.privateKey
        THEN Responds(p, 400, "invalid private key for wallet address")
        ELSE procs' = [procs EXCEPT ![p].pc = "updateWalletAccount"]
  /\ UNCHANGED <<env, clock, wallets, ipHistory, chain, resp, allowedTs, last,
                 sweepVars, run>>

(* c.updateWalletAccount returns the live balance: the two checks of the   *)
(* balance and of the amount, then the call of c.send or c.sendMax.        *)
SendInfo(p, out) ==
  /\ At(p, "send", "updateWalletAccount")
  /\ LET params == procs[p].params
         balance == chain[params.fromAddress].balance
     IN CASE out = "throw" -> Responds(p, 500, "Server error, please try again later!")
          [] out = "undefined" ->
               Responds(p, 500, "unable to retrieve account info for address sending Nano")
          [] out = "ok" ->
               IF balance = 0 THEN Responds(p, 400, "wallet balance is zero")
               ELSE IF params.amount.given /\ params.amount.asString = 0
               THEN Responds(p, 400, "Unable to send zero amount of Nano")
               ELSE procs' = [procs EXCEPT ![p].pc = "send", ![p].balance = balance]
  /\ UNCHANGED <<env, clock, wallets, ipHistory, chain, resp, allowedTs, last,
                 sweepVars, run>>

(* c.send or c.sendMax returns: the ledger has the block, res.balance is   *)
(* the sender's balance after it; then the call of updateNanoBalanceInDB.  *)
SendSend(p, out) ==
  /\ At(p, "send", "send")
  /\ LET params == procs[p].params
         live == chain[params.fromAddress].balance
         amount == IF params.amount.given THEN params.amount.asString ELSE live
     IN CASE out = "throw" ->
               /\ Responds(p, 500, "Server error, please try again later!")
               /\ UNCHANGED chain
          [] out = "undefined" ->
               /\ Responds(p, 500, "unable to send")
               /\ UNCHANGED chain
          [] out = "ok" ->
               IF amount > live \/ amount = 0
               THEN /\ Responds(p, 500, "unable to send")
                    /\ UNCHANGED chain
               ELSE LET c1 == ClientSend(chain, params.fromAddress, params.toAddress,
                                         amount)
                    IN /\ chain' = c1
                       /\ procs' = [procs EXCEPT
                                      ![p].pc = "updateNanoBalanceInDB",
                                      ![p].updatedBalance = c1[params.fromAddress].balance,
                                      ![p].sentNo = SentCount + 1]
  /\ UNCHANGED <<env, clock, wallets, ipHistory, resp, allowedTs, last, sweepVars, run>>

(* Mutant: the update is conditional (ConditionExpression 'balance > :u'): *)
(* a write that would raise the stored balance is refused and the request  *)
(* answers 500.                                                            *)
SendWrite_Conditional(p) ==
  /\ At(p, "send", "updateNanoBalanceInDB")
  /\ IF procs[p].updatedBalance < wallets[procs[p].params.fromAddress].balance
     THEN /\ wallets' = updateNanoBalanceInDB(procs[p].params.fromAddress,
                                              procs[p].updatedBalance, Store).wallets
          /\ procs' = [procs EXCEPT ![p].pc = "done", ![p].statusCode = 200,
                                    ![p].wroteNo = WroteCount + 1]
     ELSE /\ Responds(p, 500, "Server error, please try again later!")
          /\ UNCHANGED wallets
  /\ UNCHANGED <<env, clock, ipHistory, chain, resp, allowedTs, last, sweepVars, run>>

(* updateNanoBalanceInDB returns: the item has the balance this request's  *)
(* send returned; response(200, ...).                                      *)
SendWrite(p) ==
  /\ At(p, "send", "updateNanoBalanceInDB")
  /\ wallets' = updateNanoBalanceInDB(procs[p].params.fromAddress,
                                      procs[p].updatedBalance, Store).wallets
  /\ procs' = [procs EXCEPT ![p].pc = "done", ![p].statusCode = 200,
                            ![p].wroteNo = WroteCount + 1]
  /\ UNCHANGED <<env, clock, ipHistory, chain, resp, allowedTs, last, sweepVars, run>>

(* The send requests that arrive: from w1, with its key, to w2, of an      *)
(* amount or of everything.                                                *)
RaceAmounts == {NoAmount, Amount(10), Amount(100)}

RaceSends == {JsonBody("w1", KeyOf["w1"], "w2", a, Undefined) : a \in RaceAmounts}

SendRaceNext ==
  \/ \E params \in RaceSends : SendArrives(params)
  \/ \E p \in DOMAIN procs : SendLoad(p)
  \/ \E p \in DOMAIN procs, out \in CallOutcomes : SendInfo(p, out)
  \/ \E p \in DOMAIN procs, out \in CallOutcomes : SendSend(p, out)
  \/ \E p \in DOMAIN procs : SendWrite(p)

SendRaceSpec == OpsInit /\ [][SendRaceNext]_vars

(* A getFromFaucet request reaches getFromFaucet():                        *)
(* loadNanoAccountFromDB is called.                                        *)
FaucetArrives(params, ip) ==
  /\ Len(procs) < MaxFlights
  /\ procs' = Append(procs, Flight("getFromFaucet", params, ip))
  /\ UNCHANGED <<env, clock, wallets, ipHistory, chain, resp, allowedTs, last,
                 sweepVars, run>>

(* loadNanoAccountFromDB returns: the two checks, then the call of         *)
(* checkFaucetEligibility, which reads the time and calls getItem.         *)
FaucetLoad(p) ==
  /\ At(p, "getFromFaucet", "loadNanoAccountFromDB")
  /\ LET params == procs[p].params
         acc == loadNanoAccountFromDB(params.toAddress, Store)
     IN IF acc = NoItem THEN Responds(p, 400, "is an invalid wallet address")
        ELSE IF params.privateKey # acc.privateKey
        THEN Responds(p, 400, "invalid private key for wallet address")
        ELSE procs' = [procs EXCEPT ![p].pc = "getItem", ![p].ts = clock]
  /\ UNCHANGED <<env, clock, wallets, ipHistory, chain, resp, allowedTs, last,
                 sweepVars, run>>

(* getItem returns the item of the source address as it is now: the check  *)
(* decides on it, with the time it read before, and either answers         *)
(* "not eligible" or calls putItem / updateItem with the item it computed.  *)
FaucetGetItem(p) ==
  /\ At(p, "getFromFaucet", "getItem")
  /\ LET status == checkFaucetEligibility(procs[p].ip, procs[p].ts, ipHistory)
     IN IF ~status.isEligible THEN Responds(p, 400, status.reason)
        ELSE procs' = [procs EXCEPT
                         ![p].pc = IF "putItem" \in status.calls THEN "putItem"
                                   ELSE "updateItem",
                         ![p].item = status.table[procs[p].ip]]
  /\ UNCHANGED <<env, clock, wallets, ipHistory, chain, resp, allowedTs, last,
                 sweepVars, run>>

(* Mutant: the write counts up from the stored count                       *)
(* (SET numFaucetInvocations = numFaucetInvocations + :one).               *)
WrittenItem_CountsUp(stored, item) ==
  IF stored = NoItem THEN item
  ELSE [item EXCEPT !.numFaucetInvocations = stored.numFaucetInvocations + 1]

(* The item of a source address after putItem or updateItem with the item  *)
(* the request computed: putItem replaces the stored item, updateItem sets *)
(* all three attributes to the request's values (and makes the item if     *)
(* there is none), whatever is stored.                                     *)
WrittenItem(stored, item) == item

(* putItem / updateItem returns; the check answers "eligible" and          *)
(* getFromFaucet calls c.updateWalletAccount for the faucet.               *)
FaucetPutItem(p) ==
  /\ procs[p].op = "getFromFaucet"
  /\ procs[p].pc \in {"putItem", "updateItem"}
  /\ ipHistory' = [ipHistory EXCEPT
                     ![procs[p].ip] = WrittenItem(@, procs[p].item)]
  /\ allowedTs' = [allowedTs EXCEPT ![procs[p].ip] = Append(@, procs[p].ts)]
  /\ procs' = [procs EXCEPT ![p].pc = "updateWalletAccount"]
  /\ UNCHANGED <<env, clock, wallets, chain, resp, last, sweepVars, run>>

(* c.updateWalletAccount returns the faucet's live balance: the check of   *)
(* the balance, then the call of c.send.                                   *)
FaucetInfo(p, out) ==
  /\ At(p, "getFromFaucet", "updateWalletAccount")
  /\ LET balance == chain[FAUCET_ADDRESS].balance
     IN CASE out = "throw" -> Responds(p, 500, "Server error, please try again later!")
          [] out = "undefined" -> Responds(p, 500, "unable to retrieve faucet account info")
          [] out = "ok" ->
               IF balance = 0 THEN Responds(p, 400, "Faucet balance is zero")
               ELSE procs' = [procs EXCEPT ![p].pc = "send", ![p].balance = balance]
  /\ UNCHANGED <<env, clock, wallets, ipHistory, chain, resp, allowedTs, last,
                 sweepVars, run>>

(* c.send from the faucet returns: response(200, ...).                     *)
FaucetSend(p, out) ==
  /\ At(p, "getFromFaucet", "send")
  /\ LET amount == FaucetPayout(procs[p].balance)
     IN CASE out = "throw" ->
               /\ Responds(p, 500, "Server error, please try again later!")
               /\ UNCHANGED chain
          [] out = "undefined" ->
               /\ Responds(p, 500, "unable to send")
               /\ UNCHANGED chain
          [] out = "ok" ->
               IF amount > chain[FAUCET_ADDRESS].balance
               THEN /\ Responds(p, 500, "unable to send")
                    /\ UNCHANGED chain
               ELSE LET c1 == ClientSend(chain, FAUCET_ADDRESS,
                                         procs[p].params.toAddress, amount)
                    IN /\ chain' = c1
                       /\ Responds(p, 200, Null)
  /\ UNCHANGED <<env, clock, wallets, ipHistory, resp, allowedTs, last, sweepVars, run>>

(* The source address of the concurrent faucet requests.                   *)
RaceIp == "ip2"

(* The stores the concurrent faucet requests find: the two wallets, and    *)
(* either no item of the source address, or an item with one use less than *)
(* the limit, the latest of them a throttle duration ago.                  *)
FaucetRaceStores ==
  LET created == After({EmptyStore(b) : b \in FaucetInitBalances}, CreateWalletsEvent, 0)
  IN created \cup FaucetUses(created, FAUCET_INVOKE_LIMIT - 1)

FaucetRaceInit ==
  /\ env = ConfigKeys
  /\ clock = OpsStart
  /\ \E st \in FaucetRaceStores :
       /\ wallets = st.wallets
       /\ ipHistory = st.ipHistory
       /\ chain = st.chain
  /\ resp = NoRequest
  /\ allowedTs = [ip \in IPs |-> <<>>]
  /\ last = NoCheck
  /\ sweepEnv = SweepConfigKeys
  /\ sweep = NoSweep
  /\ run = NoRun
  /\ procs = NoProcs

(* The faucet requests that arrive: for w2, with its key.                  *)
RaceFaucets == {FaucetEvent("w2", RaceIp).body}

(* The waits while requests are in flight, counted from a source address's *)
(* latest use of the faucet: to just before the end of the throttle        *)
(* duration, and past the retention time of its item.                      *)
RaceOffsets ==
  { FAUCET_THROTTLE_DURATION_SECONDS * 1000 - 1,
    FAUCET_IP_HISTORY_EXPIRATION_TIME_SECONDS * 1000 + 1500 }

RaceTick ==
  /\ \E ip \in {i \in IPs : ipHistory[i] # NoItem}, off \in RaceOffsets :
       /\ clock < ipHistory[ip].lastUsedTs + off
       /\ ipHistory[ip].lastUsedTs + off <= MaxClock
       /\ clock' = ipHistory[ip].lastUsedTs + off
  /\ UNCHANGED <<ipHistory, allowedTs, last, handlerVars, sweepVars, flightVars>>

FaucetRaceNext ==
  \/ \E params \in RaceFaucets : FaucetArrives(params, RaceIp)
  \/ \E p \in DOMAIN procs : FaucetLoad(p)
  \/ \E p \in DOMAIN procs : FaucetGetItem(p)
  \/ \E p \in DOMAIN procs : FaucetPutItem(p)
  \/ \E p \in DOMAIN procs, out \in CallOutcomes : FaucetInfo(p, out)
  \/ \E p \in DOMAIN procs, out \in CallOutcomes : FaucetSend(p, out)
  \/ ExpireIpHistory(RaceIp)
  \/ RaceTick

FaucetRaceSpec == FaucetRaceInit /\ [][FaucetRaceNext]_vars

----------------------------------------------------------------------------
(* Properties of the eligibility check (EligSpec)                          *)

ThrottleMs == FAUCET_THROTTLE_DURATION_SECONDS * 1000

ResetMs == FAUCET_RESET_TIME_HOURS * 3600 * 1000

RetentionMs == FAUCET_IP_HISTORY_EXPIRATION_TIME_SECONDS * 1000

Checked == last.n > 0

HadItem == Checked /\ last.before # NoItem

Elapsed == last.ts - last.before.lastUsedTs

(* An expirationTime (epoch seconds) that is now + the retention time, to  *)
(* the nearest second.                                                     *)
IsRetentionExpiry(expirationTime, now) ==
  /\ expirationTime * 1000 - (now + RetentionMs) > -500
  /\ expirationTime * 1000 - (now + RetentionMs) <= 500

(* C1: any two checks of one ipAddress that were allowed have timestamps   *)
(* at least FAUCET_THROTTLE_DURATION_SECONDS apart.                        *)
C1_ThrottleSpacing ==
  \A ip \in IPs : \A i, j \in 1..Len(allowedTs[ip]) :
     i < j => allowedTs[ip][j] - allowedTs[ip][i] >= ThrottleMs

(* Two allowed checks exactly the throttle duration apart, and a check 1   *)
(* ms short of it that was rejected.                                       *)
C1_Witness ==
  /\ \E i \in 1..(Len(allowedTs["ip1"]) - 1) :
       allowedTs["ip1"][i + 1] - allowedTs["ip1"][i] = ThrottleMs
  /\ HadItem /\ ~last.isEligible /\ Elapsed = ThrottleMs - 1

(* C2: at most FAUCET_INVOKE_LIMIT checks of one ipAddress are allowed     *)
(* inside any interval of FAUCET_RESET_TIME_HOURS.                         *)
AllowedWithin(ip, i) ==
  {j \in i..Len(allowedTs[ip]) : allowedTs[ip][j] - allowedTs[ip][i] <= ResetMs}

C2_LimitPerWindow ==
  \A ip \in IPs : \A i \in 1..Len(allowedTs[ip]) :
     Cardinality(AllowedWithin(ip, i)) <= FAUCET_INVOKE_LIMIT

(* The limit is reached inside one window and the next check is rejected   *)
(* for it.                                                                 *)
C2_Witness ==
  /\ \E i \in 1..Len(allowedTs["ip1"]) :
       Cardinality(AllowedWithin("ip1", i)) = FAUCET_INVOKE_LIMIT
  /\ Checked /\ ~last.isEligible /\ last.reason = LimitReason

(* C3: with no item for the ipAddress the check allows and stores count 1, *)
(* lastUsedTs = now and an expiry of now + the retention time.             *)
C3_FreshRecord ==
  (Checked /\ last.before = NoItem) =>
     /\ last.isEligible
     /\ last.after # NoItem
     /\ last.after.numFaucetInvocations = 1
     /\ last.after.lastUsedTs = last.ts
     /\ IsRetentionExpiry(last.after.expirationTime, last.ts)

(* A first use after the time-to-live removed an earlier item, at a clock  *)
(* off the full second.                                                    *)
C3_Witness ==
  /\ last.n > 1 /\ last.before = NoItem /\ last.isEligible
  /\ last.ts % 1000 # 0

(* C4: a check less than the throttle duration after lastUsedTs is         *)
(* rejected for the throttle, whatever the count, and the item stays as it *)
(* was.                                                                    *)
C4_ThrottleReject ==
  (HadItem /\ Elapsed < ThrottleMs) =>
     /\ ~last.isEligible
     /\ last.reason = ThrottleReason
     /\ last.after = last.before

(* A throttled check of an ipAddress that is also at the limit.            *)
C4_Witness ==
  /\ HadItem /\ Elapsed < ThrottleMs
  /\ last.before.numFaucetInvocations + 1 > FAUCET_INVOKE_LIMIT
  /\ last.reason = ThrottleReason

(* C5: at the limit, past the throttle duration and inside the reset time, *)
(* the check is rejected for the limit and the item stays as it was.       *)
C5_LimitReject ==
  (/\ HadItem
   /\ last.before.numFaucetInvocations + 1 > FAUCET_INVOKE_LIMIT
   /\ Elapsed >= ThrottleMs
   /\ Elapsed < ResetMs) =>
     /\ ~last.isEligible
     /\ last.reason = LimitReason
     /\ last.after = last.before

(* A check at the limit 1 ms before the reset time is over.                *)
C5_Witness ==
  /\ HadItem
  /\ last.before.numFaucetInvocations + 1 > FAUCET_INVOKE_LIMIT
  /\ Elapsed = ResetMs - 1
  /\ last.reason = LimitReason

(* C6: an allowed check of an ipAddress with an item stores count 1 when   *)
(* the reset time has passed since lastUsedTs and count + 1 otherwise,     *)
(* lastUsedTs = now and an expiry of now + the retention time.             *)
C6_AllowedUpdate ==
  (HadItem /\ last.isEligible) =>
     /\ last.after # NoItem
     /\ last.after.numFaucetInvocations =
          (IF Elapsed >= ResetMs THEN 1 ELSE last.before.numFaucetInvocations + 1)
     /\ last.after.lastUsedTs = last.ts
     /\ IsRetentionExpiry(last.after.expirationTime, last.ts)

(* An item at the limit is reset to 1 exactly the reset time later.        *)
C6_Witness ==
  /\ HadItem /\ last.isEligible
  /\ last.before.numFaucetInvocations = FAUCET_INVOKE_LIMIT
  /\ Elapsed = ResetMs
  /\ last.after.numFaucetInvocations = 1

(* C7, as claimed: the check has no side effect, so a second check of the  *)
(* same ipAddress at the same time gives the same decision.                *)
Repeated == last.n > 1 /\ last.prev.ip = last.ip /\ last.prev.ts = last.ts

C7_SideEffectFree ==
  Repeated =>
     /\ last.isEligible = last.prev.isEligible
     /\ last.reason = last.prev.reason

(* C7, amended: a rejected check writes nothing and its repetition is      *)
(* rejected for the same reason; an allowed check writes the item itself,  *)
(* and its repetition is rejected for the throttle.                        *)
C7_RepeatedCheck ==
  /\ (Checked /\ ~last.isEligible) => last.after = last.before
  /\ (Checked /\ last.isEligible) =>
        /\ last.after # last.before
        /\ last.after.lastUsedTs = last.ts
  /\ Repeated =>
        IF last.prev.isEligible
        THEN ~last.isEligible /\ last.reason = ThrottleReason
        ELSE ~last.isEligible /\ last.reason = last.prev.reason

(* A check rejected for the limit, repeated at once.                       *)
C7_Witness == Repeated /\ last.prev.reason = LimitReason /\ last.reason = LimitReason

----------------------------------------------------------------------------
(* Properties of the request handler (Spec)                                *)

StoreCalls == {"getItem", "putItem", "updateItem"}

ClientCalls == {"generateWallet", "updateWalletAccount", "send", "sendMax", "receive"}

Answered == resp.n > 0

ConfigMissing == env # ConfigKeys

NoProcessing == resp.calls = {}

NoApiOperation == resp.calls \cap (StoreCalls \cup ClientCalls) = {}

TokenAbsent == resp.event.token = NoToken

(* The validator was asked and did not answer success: true.               *)
TokenRefused == resp.event.token # NoToken /\ resp.captcha = "undefined"

(* The call of the validator itself failed.                                *)
ValidatorFailed == resp.event.token # NoToken /\ resp.captcha = "throw"

TokenVerified == resp.event.token # NoToken /\ resp.captcha = "ok"

Descriptive(error) == error \notin {Null, ServerError, CaptchaError}

(* C8, as claimed: with a configuration value missing every request,       *)
(* whatever its method, is answered 500 with a descriptive message before  *)
(* any other processing.                                                   *)
C8_EveryRequest500 ==
  (Answered /\ ConfigMissing) =>
     /\ resp.statusCode = 500
     /\ Descriptive(resp.error)
     /\ NoProcessing

(* C8, amended: that holds of every request that is not OPTIONS; an        *)
(* OPTIONS request is answered 200 before the configuration is checked.    *)
C8_ConfigMissing500 ==
  (Answered /\ ConfigMissing) =>
     IF resp.event.method = "OPTIONS"
     THEN resp.statusCode = 200 /\ NoProcessing
     ELSE /\ resp.statusCode = 500
          /\ Descriptive(resp.error)
          /\ NoProcessing

(* A request with a token to a mapped path, answered 500 for the last key  *)
(* validateState looks at.                                                 *)
C8_Witness ==
  /\ Answered /\ env = ConfigKeys \ {"NANOBOX_PASSWORD"}
  /\ resp.event.method = "POST" /\ resp.event.token # NoToken
  /\ resp.event.rawPath = "/api/createWallets"
  /\ resp.statusCode = 500

(* C9, as claimed: every request that is not OPTIONS and whose token is    *)
(* absent or not verified successfully is answered 403, and no API         *)
(* operation runs; an absent token is rejected without the validator.      *)
(* The claim is read for a complete configuration, the case C8 leaves.     *)
C9_Unverified403 ==
  (Answered /\ ~ConfigMissing /\ resp.event.method # "OPTIONS"
     /\ ~TokenVerified) =>
     /\ resp.statusCode = 403
     /\ NoApiOperation
     /\ TokenAbsent => NoProcessing

(* C9, amended: with the configuration complete, an absent token and a     *)
(* token the validator refuses are answered 403; a failed call of the      *)
(* validator is answered with the generic 500; with a configuration value  *)
(* missing the answer is the 500 of C8.  In all of them no API operation   *)
(* runs, and the validator is not called for an absent token.              *)
C9_CaptchaGate ==
  (Answered /\ resp.event.method # "OPTIONS" /\ ~TokenVerified) =>
     /\ NoApiOperation
     /\ TokenAbsent => NoProcessing
     /\ resp.statusCode =
          (IF ConfigMissing THEN 500
           ELSE IF ValidatorFailed THEN 500
           ELSE 403)
     /\ (~ConfigMissing /\ ValidatorFailed) => resp.error = ServerError
     /\ (~ConfigMissing /\ ~ValidatorFailed) => resp.error = CaptchaError

(* A refused token on a request that would otherwise create wallets.       *)
C9_Witness ==
  /\ Answered /\ ~ConfigMissing /\ TokenRefused
  /\ resp.event.method = "POST"
  /\ resp.event.rawPath = "/api/createWallets"
  /\ resp.statusCode = 403
  /\ wallets = [a \in Addr |-> NoItem]

(* C10, as claimed: past the configuration check and the captcha gate, a   *)
(* request to a path outside the mapped ones is answered 404 with no store *)
(* or client call; with a missing or refused token it is answered 403.     *)
Unmapped == resp.event.rawPath \notin MappedPaths

C10_Unmapped404 ==
  (Answered /\ ~ConfigMissing /\ resp.event.method # "OPTIONS" /\ Unmapped) =>
     /\ TokenVerified => (resp.statusCode = 404 /\ NoApiOperation)
     /\ (TokenAbsent \/ TokenRefused) => resp.statusCode = 403

(* C10, amended: that holds when the body is absent or is JSON; the body   *)
(* is parsed before the path is looked up, and a body that is not JSON is  *)
(* answered with the generic 500, again with no store or client call.      *)
C10_UnmappedPath ==
  (Answered /\ ~ConfigMissing /\ resp.event.method # "OPTIONS" /\ Unmapped) =>
     /\ NoApiOperation
     /\ (TokenVerified /\ resp.event.body # BadJson) => resp.statusCode = 404
     /\ (TokenVerified /\ resp.event.body = BadJson) =>
           (resp.statusCode = 500 /\ resp.error = ServerError)
     /\ (TokenAbsent \/ TokenRefused) => resp.statusCode = 403

(* An unmapped path answered 404 after wallets were created.               *)
C10_Witness ==
  /\ Answered /\ Unmapped /\ resp.statusCode = 404
  /\ wallets["w1"] # NoItem

----------------------------------------------------------------------------
(* Properties of the API operations (OpsSpec).  The ones about what a      *)
(* request leaves unchanged are properties of the step that handles it.    *)

Handled == resp'.n = resp.n + 1

HandledPath(path) == Handled /\ resp'.event.rawPath = path

StoreUnchanged == wallets' = wallets /\ ipHistory' = ipHistory

LedgerUnchanged == chain' = chain

InvalidAddress == "is an invalid wallet address"

Unauthorized == "invalid private key for wallet address"

(* The address a send or getFromFaucet request names as its wallet.        *)
WalletParam(event) ==
  IF event.rawPath = "/api/send" THEN event.body.fromAddress ELSE event.body.toAddress

(* A send or getFromFaucet request that names an address.                  *)
NamesWallet(event) ==
  /\ event.rawPath \in {"/api/send", "/api/getFromFaucet"}
  /\ event.body.kind = "json"
  /\ WalletParam(event) # Undefined

C11_Step ==
  (Handled /\ NamesWallet(resp'.event)) =>
     LET item == Lookup(wallets, WalletParam(resp'.event)) IN
     /\ item = NoItem =>
          /\ resp'.statusCode = 400 /\ resp'.error = InvalidAddress
          /\ StoreUnchanged /\ LedgerUnchanged
          /\ resp'.calls = {"validateCaptcha", "getItem"}
     /\ (item # NoItem /\ resp'.event.body.privateKey # item.privateKey) =>
          /\ resp'.statusCode = 400 /\ resp'.error = Unauthorized
          /\ StoreUnchanged /\ LedgerUnchanged
          /\ resp'.calls = {"validateCaptcha", "getItem"}

(* C11: a send or getFromFaucet request whose address has no wallet item   *)
(* is answered 400 (invalid address), one whose private key differs from   *)
(* the stored key is answered 400 (invalid private key); in both cases     *)
(* neither table nor the ledger changes, and the only calls made are the   *)
(* captcha validation and the read of the wallet item: no eligibility      *)
(* check, no client call.                                                  *)
C11_NoMutation == [][C11_Step]_vars

(* getFromFaucet for an existing wallet with another key, from a source    *)
(* address that has no usage record, answered 400.                         *)
C11_Witness ==
  /\ Answered /\ resp.event.rawPath = "/api/getFromFaucet"
  /\ resp.event.body.kind = "json"
  /\ resp.event.body.toAddress = "w1" /\ resp.event.body.privateKey = BadKey
  /\ wallets["w1"] # NoItem
  /\ resp.statusCode = 400 /\ resp.error = Unauthorized
  /\ ipHistory[resp.event.sourceIp] = NoItem

InvalidAmount == "Unable to send zero amount of Nano"

BalanceZero == "wallet balance is zero"

NoAccountInfo == "unable to retrieve account info for address sending Nano"

(* The latest request is a send of amount zero (asString '0') from a       *)
(* wallet that has an item, with that item's private key.  Items are never *)
(* deleted and keys never change, so the item was there before the request.*)
ZeroSend ==
  /\ Answered /\ resp.event.rawPath = "/api/send"
  /\ resp.event.body.kind = "json"
  /\ resp.event.body.amount = Amount(0)
  /\ Lookup(wallets, resp.event.body.fromAddress) # NoItem
  /\ resp.event.body.privateKey = Lookup(wallets, resp.event.body.fromAddress).privateKey

(* C12, as claimed: a send of amount zero is answered 400 (zero amount)    *)
(* before any call of the Nano client.                                     *)
C12_ZeroBeforeNetwork ==
  ZeroSend =>
     /\ resp.statusCode = 400 /\ resp.error = InvalidAmount
     /\ resp.calls \cap ClientCalls = {}

(* C12, amended: a send of amount zero never reaches c.send or c.sendMax   *)
(* and writes nothing, but the account is queried first                    *)
(* (updateWalletAccount): a query that fails is answered 500, a live       *)
(* balance of zero 400 "wallet balance is zero", and only then the zero    *)
(* amount 400.                                                             *)
C12_ZeroAmount ==
  ZeroSend =>
     /\ resp.calls = {"validateCaptcha", "getItem", "updateWalletAccount"}
     /\ resp.info = "throw" => (resp.statusCode = 500 /\ resp.error = ServerError)
     /\ resp.info = "undefined" => (resp.statusCode = 500 /\ resp.error = NoAccountInfo)
     /\ (resp.info = "ok" /\ chain[resp.event.body.fromAddress].balance = 0) =>
           (resp.statusCode = 400 /\ resp.error = BalanceZero)
     /\ (resp.info = "ok" /\ chain[resp.event.body.fromAddress].balance > 0) =>
           (resp.statusCode = 400 /\ resp.error = InvalidAmount)

(* A send of amount zero from a wallet that holds Nano, answered 400.      *)
C12_Witness ==
  /\ ZeroSend
  /\ chain[resp.event.body.fromAddress].balance > 0
  /\ resp.statusCode = 400 /\ resp.error = InvalidAmount

(* The step handles a getFromFaucet request for a wallet that has an item, *)
(* with that item's private key: the request comes to the eligibility      *)
(* check.                                                                  *)
FaucetChecked ==
  /\ HandledPath("/api/getFromFaucet") /\ NamesWallet(resp'.event)
  /\ Lookup(wallets, resp'.event.body.toAddress) # NoItem
  /\ resp'.event.body.privateKey = Lookup(wallets, resp'.event.body.toAddress).privateKey

(* What the policy says of the record the source address has before the    *)
(* step, at the time of the step.                                          *)
SinceLastUse == clock - ipHistory[resp'.event.sourceIp].lastUsedTs

Throttled ==
  /\ ipHistory[resp'.event.sourceIp] # NoItem
  /\ SinceLastUse < ThrottleMs

Limited ==
  /\ ipHistory[resp'.event.sourceIp] # NoItem
  /\ SinceLastUse >= ThrottleMs /\ SinceLastUse < ResetMs
  /\ ipHistory[resp'.event.sourceIp].numFaucetInvocations >= FAUCET_INVOKE_LIMIT

C13_Step ==
  (FaucetChecked /\ (Throttled \/ Limited)) =>
     /\ resp'.statusCode = 400
     /\ resp'.error = (IF Throttled THEN ThrottleReason ELSE LimitReason)
     /\ LedgerUnchanged /\ StoreUnchanged
     /\ resp'.calls \cap ClientCalls = {}

(* C13: a getFromFaucet request that the eligibility check refuses (the    *)
(* throttle, or the limit within the reset time) is answered 400 with the  *)
(* check's reason, word for word; the ledger and the tables stay as they   *)
(* were and the Nano client is not called: no balance query, no send.      *)
C13_IneligibleRejected == [][C13_Step]_vars

(* A request refused for the limit: the source address has used the faucet *)
(* ten times, the last time a throttle duration ago.                       *)
C13_Witness ==
  /\ Answered /\ resp.event.rawPath = "/api/getFromFaucet"
  /\ resp.statusCode = 400 /\ resp.error = LimitReason
  /\ ipHistory[resp.event.sourceIp].numFaucetInvocations = FAUCET_INVOKE_LIMIT
  /\ clock - ipHistory[resp.event.sourceIp].lastUsedTs = ThrottleMs

FaucetEmpty == "Faucet balance is zero"

C14_Step ==
  (HandledPath("/api/getFromFaucet") /\ chain[FAUCET_ADDRESS].balance = 0) =>
     /\ resp'.statusCode # 200
     /\ "send" \notin resp'.calls
     /\ LedgerUnchanged
     /\ (FaucetChecked /\ ~Throttled /\ ~Limited /\ resp'.info = "ok") =>
           (resp'.statusCode = 400 /\ resp'.error = FaucetEmpty)

(* C14: with a live faucet balance of 0 no getFromFaucet request is        *)
(* answered 200, none calls c.send and the ledger stays as it was; the     *)
(* request that passes the wallet, key and eligibility checks and gets the *)
(* faucet's account is answered 400 "Faucet balance is zero".              *)
C14_EmptyFaucet == [][C14_Step]_vars

(* An eligible request for an existing wallet, refused for the empty       *)
(* faucet after the faucet's account was queried.                          *)
C14_Witness ==
  /\ Answered /\ resp.event.rawPath = "/api/getFromFaucet"
  /\ resp.statusCode = 400 /\ resp.error = FaucetEmpty
  /\ chain[FAUCET_ADDRESS].balance = 0
  /\ "updateWalletAccount" \in resp.calls

C15_Step ==
  (Handled /\ resp'.error \in {BalanceZero, InvalidAmount, FaucetEmpty}) =>
     /\ resp'.statusCode = 400
     /\ StoreUnchanged

(* C15: a request that ends with "wallet balance is zero", with the zero   *)
(* amount error or with "Faucet balance is zero" is answered 400 and       *)
(* leaves both tables as they were before it: no wallet item and no usage  *)
(* record is created or changed.                                           *)
C15_StoreUnchanged == [][C15_Step]_vars

(* The wallet a send or receive request is about.                          *)
OwnAddress(event) ==
  IF event.rawPath = "/api/send" THEN event.body.fromAddress ELSE event.body.receiveAddress

(* The step handles a send or a receive that is answered 200.              *)
Confirmed ==
  /\ Handled /\ resp'.statusCode = 200
  /\ resp'.event.rawPath \in {"/api/send", "/api/receive"}

C16_Step ==
  /\ Confirmed =>
       LET a == OwnAddress(resp'.event) IN
       /\ wallets'[a].balance = chain'[a].balance
       /\ resp'.data.balance = chain'[a].balance
  /\ \A a \in Addr :
       (wallets[a] # NoItem /\ wallets'[a] # wallets[a]) =>
          /\ Confirmed /\ OwnAddress(resp'.event) = a
          /\ wallets'[a] = [wallets[a] EXCEPT !.balance = chain'[a].balance]

(* C16: after a send or receive answered 200 the stored balance of the     *)
(* wallet is the balance the Nano client returned for the operation (the   *)
(* account's balance on the ledger after it), and the response carries the *)
(* same balance; and a wallet item changes in no other step, so between    *)
(* requests the stored balance is that of the wallet's latest confirmed    *)
(* send or receive.                                                        *)
C16_StoredBalance == [][C16_Step]_vars

(* A second confirmed operation on a wallet: a send of part of what an     *)
(* earlier confirmed operation left.                                       *)
C16_Witness ==
  /\ resp.n = 2 /\ resp.event.rawPath = "/api/send" /\ resp.statusCode = 200
  /\ resp.event.body.amount = Amount(10)
  /\ wallets["w1"].balance = resp.data.balance
  /\ wallets["w1"].balance > 0

WalletExpirationMs == WALLET_EXPIRATION_TIME_SECONDS * 1000

(* The wallet items the step creates.                                      *)
Created == {a \in Addr : wallets[a] = NoItem /\ wallets'[a] # NoItem}

Returned == {resp'.data.wallets[i] : i \in 1..Len(resp'.data.wallets)}

C17_Step ==
  (HandledPath("/api/createWallets") /\ resp'.statusCode = 200) =>
     /\ Cardinality(Created) = 2
     /\ \A a \in Created :
          /\ wallets'[a].balance = 0
          /\ wallets'[a].expirationTs - WALLET_EXPIRATION_TIME_SECONDS
                \in {clock \div 1000, clock \div 1000 + 1}
          /\ wallets'[a].expirationTs * 1000 - (clock + WalletExpirationMs) > -500
          /\ wallets'[a].expirationTs * 1000 - (clock + WalletExpirationMs) <= 500
     /\ Len(resp'.data.wallets) = 2
     /\ {w.address : w \in Returned} = Created
     /\ \A w \in Returned :
          w.privateKey = wallets'[w.address].privateKey /\ w.balance = 0
     /\ \A a \in Addr \ Created : wallets'[a] = wallets[a]
     /\ ipHistory' = ipHistory

(* C17: a createWallets request answered 200 adds exactly two wallet items *)
(* that were not there, each with balance 0 and an expiration of the time  *)
(* of the request plus WALLET_EXPIRATION_TIME_SECONDS (in epoch seconds,   *)
(* to the nearest second); the response lists exactly these two addresses  *)
(* with their private keys and balance 0; no other item changes.           *)
C17_TwoNewWallets == [][C17_Step]_vars

(* Two more wallets created next to a wallet that holds Nano, at a time    *)
(* that is not a whole second.                                             *)
C17_Witness ==
  /\ Answered /\ resp.event.rawPath = "/api/createWallets" /\ resp.statusCode = 200
  /\ wallets["w3"] # NoItem /\ wallets["w4"] # NoItem
  /\ wallets["w1"].balance > 0
  /\ clock % 1000 # 0

----------------------------------------------------------------------------
(* Properties of the sweep (SweepSpec)                                     *)

SweepStep == sweep'.n = sweep.n + 1

Swept == sweep.n > 0

Range(seq) == {seq[i] : i \in DOMAIN seq}

C18_ClaimedStep ==
  SweepStep =>
     \A a \in Range(sweep'.scanned) :
        /\ a \in Range(sweep'.attempted)
        /\ sweep'.sendMax[a] # "ok" => wallets'[a].balance = wallets[a].balance

FirstRaise(items, outcome) ==
  LET raising == {i \in DOMAIN items : outcome[items[i]] = "throw"}
  IN IF raising = {} THEN Len(items) + 1
     ELSE CHOOSE i \in raising : \A j \in raising : i <= j

C18_Step ==
  SweepStep =>
     LET items == sweep'.scanned
         stop == FirstRaise(items, sweep'.sendMax)
     IN /\ sweep'.attempted = [i \in 1..(IF stop > Len(items) THEN Len(items) ELSE stop)
                                  |-> items[i]]
        /\ \A i \in DOMAIN items :
             IF i < stop /\ sweep'.sendMax[items[i]] = "ok"
             THEN /\ wallets'[items[i]].balance = chain'[items[i]].balance
                  /\ chain'[items[i]].balance = 0
             ELSE /\ wallets'[items[i]] = wallets[items[i]]
                  /\ chain'[items[i]] = chain[items[i]]
        /\ stop <= Len(items) =>
             (sweep'.statusCode = 500 /\ sweep'.error = ErrorOf("sendMax"))
        /\ stop > Len(items) => sweep'.error # ErrorOf("sendMax")

ScanRan ==
  /\ SweepStep
  /\ sweepEnv = SweepConfigKeys
  /\ sweep'.error \notin {NoFaucetInfo, ErrorOf("updateWalletAccount"),
                          ErrorOf("scan"), NoItemsError}

(* The items createWallets wrote: they carry expirationTs.                 *)
CreatedWallets == {a \in Addr : wallets[a] # NoItem /\ "expirationTs" \in DOMAIN wallets[a]}

C19_Step ==
  ScanRan =>
     \A a \in CreatedWallets :
        a \in Range(sweep'.scanned) <=>
           (wallets[a].balance > 0 /\ wallets[a].expirationTs * 1000 < clock)

(* C19: a run of the sweep selects a wallet that createWallets made        *)
(* exactly when the wallet's stored balance is above 0 and its expiration  *)
(* (epoch seconds) has passed at the time of the scan.                     *)
C19_ExpiredSelected == [][C19_Step]_vars

(* An error was raised while the latest API request was handled: by the    *)
(* captcha validator, by JSON.parse of the body, or by the client's        *)
(* account query.                                                          *)
ApiRaised ==
  /\ Answered /\ ~ConfigMissing /\ resp.event.method # "OPTIONS"
  /\ \/ ValidatorFailed
     \/ TokenVerified /\ resp.event.body = BadJson
     \/ TokenVerified /\ resp.info = "throw"

(* An error was raised in the latest run of the sweep.                     *)
SweepRaised == Swept /\ sweep.raised # Null

(* C20: an error raised while a request is handled, by the API handler or  *)
(* by the sweep's handler, is answered 500 with the fixed message, and the *)
(* error's own message is not in the response.                             *)
C20_GenericError ==
  /\ ApiRaised => (resp.statusCode = 500 /\ resp.error = ServerError)
  /\ SweepRaised =>
       /\ sweep.statusCode = 500
       /\ sweep.error = ServerError
       /\ sweep.error # sweep.raised


----------------------------------------------------------------------------
(* C21 and C22: the order of the calls of one sweep run, and a second run. *)

(* The step in which the run calls c.receive for the faucet.               *)
ReceiveIssued == run.pc = "receive" /\ run' # run

(* The step in which a run answers 200 with its report.                    *)
Reported == sweep'.n = sweep.n + 1 /\ sweep'.statusCode = 200

C21_Step ==
  /\ ReceiveIssued =>
       /\ run.done = run.items
       /\ \A a \in run.sent :
            /\ a \in run.saved
            /\ wallets[a].balance = chain[a].balance
       /\ sweep' = sweep \/ sweep'.statusCode = 500
  /\ Reported =>
       /\ run.pc = "response"
       /\ run.received
       /\ sweep'.data = [ kind |-> "sweep", walletCount |-> Len(run.items),
                          previousFaucetBalance |-> run.previousFaucetBalance,
                          updatedFaucetBalance |-> chain[FAUCET_ADDRESS].balance,
                          resolvedCount |-> run.resolvedCount ]

(* C21: in a sweep run, c.receive for the faucet is called only after the  *)
(* sendMax of every scanned wallet has returned and, for every send that   *)
(* succeeded, the updated balance has been written to the wallet's item;   *)
(* the report (walletCount, previousFaucetBalance, updatedFaucetBalance,   *)
(* resolvedCount) is produced only after that receive has returned.        *)
C21_ReceiveAfterSends == [][C21_Step]_vars

(* A run reported after it swept two wallets, one of which did not send.   *)
C21_Witness ==
  /\ sweep.n > 0
  /\ sweep.statusCode = 200
  /\ Len(sweep.scanned) = 2
  /\ sweep.attempted = sweep.scanned
  /\ "undefined" \in Range(sweep.sendMax)
  /\ "ok" \in Range(sweep.sendMax)
  /\ sweep.data.resolvedCount > 0


(* The run before this one got its items from the scan and every sendMax   *)
(* it called succeeded.                                                    *)
SweptBefore(s) ==
  /\ s.n > 0
  /\ sweepEnv = SweepConfigKeys
  /\ s.error \notin {NoFaucetInfo, ErrorOf("updateWalletAccount"),
                     ErrorOf("scan"), NoItemsError}
  /\ s.attempted = s.scanned
  /\ \A a \in Range(s.scanned) : s.sendMax[a] = "ok"

(* The claim as the specification states it: the second run selects        *)
(* nothing, sends nothing and changes no item.                             *)
C22_ClaimedStep ==
  (SweepStep /\ SweptBefore(sweep) /\ sweep.scanned # <<>>) =>
     /\ sweep'.scanned = <<>>
     /\ sweep'.attempted = <<>>
     /\ wallets' = wallets

DueSince(t) ==
  {a \in Addr : /\ wallets[a] # NoItem
                /\ HasEpoch(wallets[a])
                /\ wallets[a].balance > 0
                /\ t <= wallets[a].returnToFaucetEpoch
                /\ wallets[a].returnToFaucetEpoch < clock}

C22_Step ==
  (SweepStep /\ SweptBefore(sweep)) =>
     /\ \A a \in Range(sweep.scanned) :
          /\ a \notin Range(sweep'.scanned)
          /\ wallets[a].balance = 0
          /\ wallets'[a] = wallets[a]
     /\ Range(sweep'.scanned) \subseteq DueSince(sweep.ts)
     /\ ScanRan => Range(sweep'.scanned) = DueSince(sweep.ts)
     /\ DueSince(sweep.ts) = {} =>
          /\ sweep'.scanned = <<>>
          /\ sweep'.attempted = <<>>
          /\ wallets' = wallets

----------------------------------------------------------------------------
(* C23: two send requests from the same address at the same time           *)
(* (SendRaceSpec).                                                         *)

Senders == {p \in DOMAIN procs : procs[p].sentNo > 0}

Writers == {p \in DOMAIN procs : procs[p].wroteNo > 0}

LastSender == CHOOSE p \in Senders : procs[p].sentNo = SentCount

LastWriter == CHOOSE p \in Writers : procs[p].wroteNo = WroteCount

AllDone == \A p \in DOMAIN procs : procs[p].pc = "done"

(* C23: nothing protects the balance of a wallet's item: the write of a    *)
(* send request is unconditional, so the stored balance is always the one  *)
(* that the request that wrote last got from its own send, while the live  *)
(* balance is the one after the send confirmed last; when two concurrent   *)
(* sends from one address have both completed and the request that wrote   *)
(* last is not the one whose send was confirmed last, the stored balance   *)
(* differs from the live balance.                                          *)
C23_LastWriteWins ==
  /\ Writers # {} => wallets["w1"].balance = procs[LastWriter].updatedBalance
  /\ Senders # {} => chain["w1"].balance = procs[LastSender].updatedBalance
  /\ (AllDone /\ Writers # {}) =>
       /\ Writers = Senders
       /\ LastWriter # LastSender => wallets["w1"].balance > chain["w1"].balance
       /\ LastWriter = LastSender => wallets["w1"].balance = chain["w1"].balance

(* Both requests answered 200 and the item holds the balance of the send   *)
(* that was confirmed first.                                               *)
C23_Witness ==
  /\ Len(procs) = 2
  /\ AllDone
  /\ \A p \in DOMAIN procs : procs[p].statusCode = 200
  /\ LastWriter # LastSender
  /\ wallets["w1"].balance # chain["w1"].balance
  /\ wallets["w1"].balance = procs[LastWriter].updatedBalance


----------------------------------------------------------------------------
(* C24 and C25: getFromFaucet requests from one source address at the same *)
(* time (FaucetRaceSpec).                                                  *)

Apart(t1, t2) == IF t1 < t2 THEN t2 - t1 ELSE t1 - t2

(* C24: of any two faucet requests from the same source address whose      *)
(* timestamps are less than the throttle duration apart, at most one is    *)
(* allowed, whatever the interleaving.                                     *)
C24_ThrottleUnderConcurrency ==
  \A i, j \in DOMAIN allowedTs[RaceIp] :
     i # j => Apart(allowedTs[RaceIp][i], allowedTs[RaceIp][j]) >= ThrottleMs

(* C25: in every reachable state, whatever the interleaving of the faucet  *)
(* requests in flight, every stored item of the table FaucetIpHistory has  *)
(* 1 <= numFaucetInvocations <= FAUCET_INVOKE_LIMIT.                       *)
C25_CountInRange ==
  \A ip \in IPs :
     ipHistory[ip] # NoItem =>
        /\ 1 <= ipHistory[ip].numFaucetInvocations
        /\ ipHistory[ip].numFaucetInvocations <= FAUCET_INVOKE_LIMIT

(* Two requests that read the same item, one use below the limit, were     *)
(* both allowed and both wrote: the stored count is the limit.             *)
C25_Witness ==
  /\ Len(allowedTs[RaceIp]) = 2
  /\ allowedTs[RaceIp][1] = allowedTs[RaceIp][2]
  /\ \A p \in DOMAIN procs : procs[p].pc \notin {"loadNanoAccountFromDB", "getItem",
                                                  "putItem", "updateItem"}
  /\ ipHistory[RaceIp].numFaucetInvocations = FAUCET_INVOKE_LIMIT

====
